---- MODULE Spec2Model ----
(***************************************************************************)
(* Model of package future (src/future/future.go): the futureImpl state    *)
(* machine (Start / Cancel / Wait / Done / IsDone / execute) and the       *)
(* WaitAll combinator.                                                     *)
(*                                                                         *)
(* A future's execute goroutine is modelled by its position pc[f]:         *)
(*   "none"   no goroutine was spawned                                     *)
(*   "fn"     inside fu.fn(fu.ctx): the task body is running               *)
(*   "ret"    the body returned (result, err), kept in local[f]            *)
(*   "stored" fu.res / fu.err were written under fu.mu                     *)
(*   "closed" the deferred close(fu.done) ran                              *)
(***************************************************************************)
EXTENDS Integers, Sequences, FiniteSets, TLC

\* ------------------------------------------------------------- bounds
\* Futures handed to WaitAll (specification SpecWaitAll).
NumFutures == 2
\* Future instances driven by concurrent callers (specification Spec).
NumProbes == 1
\* Wait calls that may be blocked on one future at the same time.
MaxWaiters == 2
\* Longest pipeline chain (specifications SpecPipe and SpecPipeAny).
NumStages == 2
\* Run calls made on one stage.
MaxRunCalls == 1
\* Components added to one builder (specification SpecBuilder).
MaxComponents == 2
\* Commands built from the builders and by Pipe (specification SpecBuilder).
MaxCmds == 3

Futures == 1..NumFutures
Probes == 1..NumProbes
AllFutures == Futures \cup Probes

\* ------------------------------------------------------------- values
\* The zero value of the result type T (the tests use T = string).
Zero == ""
\* A nil error, context.Canceled, and the error / result of future f's body.
Nil == "nil"
Canceled == "context.Canceled"
DeadlineExceeded == "context.DeadlineExceeded"
R(f) == "r" \o ToString(f)
E(f) == "e" \o ToString(f)

\* The task specifications fn a future may be created with:
\*   const/ok   returns (R(f), nil) whatever its context  (TestNew, TestStart)
\*   const/err  returns (R(f), E(f)) whatever its context (TestErrorHandling)
\*   observe    returns (Zero, ctx.Err()) when its context is done at the
\*              moment it completes, (R(f), nil) otherwise (TestCancel)
Tasks(f) ==
    { [kind |-> "const", val |-> R(f), err |-> Nil],
      [kind |-> "const", val |-> R(f), err |-> E(f)],
      [kind |-> "observe", val |-> R(f), err |-> Nil] }

VARIABLES
    fn,          \* fu.fn: the task specification, fixed at creation
    once,        \* fu.once has fired
    pc,          \* position of the execute goroutine
    local,       \* execute's locals (result, err) once the body returned
    res, err,    \* fu.res, fu.err
    done,        \* fu.done is closed
    cancelled,   \* fu.cancel was invoked (the child scope's own cancel)
    parentDone,  \* the context given to New is cancelled
    runs,        \* how many times the task body was entered
    writes,      \* how many times the slots were written
    closes,      \* how many times close(fu.done) ran
    startCalls,  \* Start calls made on the future: 0, 1, or 2 for "2 or more"
    startRet,    \* the handles returned by those Start calls
    waiters,     \* Wait calls blocked on <-fu.done
    waitRets,    \* the (result, error) pairs returned by Wait calls
    waitCount,   \* Wait calls that returned: 0, 1, or 2 for "2 or more"
    seenDone,    \* some IsDone call returned true
    cancelledEarly, \* the scope was cancelled before the body completed
    cancelledLate,  \* Cancel was called after the completion signal fired
    scopeDone,   \* the context given to WaitAll is cancelled
    waFus,       \* WaitAll: fus
    waPc,        \* WaitAll: "idle", "select", "cancel" or "returned"
    waI,         \* WaitAll: index of the outer range loop
    waJ,         \* WaitAll: index of the inner (cancelling) range loop
    waRes,       \* WaitAll: res
    waRet,       \* WaitAll: the returned ([]T, error)
    waCancels,   \* the futures WaitAll called Cancel on
    waOutOfOrder, \* WaitAll received a signal after a later future's had fired
    wtPc,        \* WaitTimeout: "idle", "select" or "returned"
    wtFu,        \* WaitTimeout: fu (0 before the call)
    wtExpired,   \* WaitTimeout: the deadline of its context has passed
    wtSaw,       \* what was ready when WaitTimeout's select took a branch
    wtRet,       \* WaitTimeout: the returned (r, err)
    wtCancels,   \* how many times WaitTimeout called fu.Cancel()
    cmdKind,     \* cm.cmd: what the stage's external command does, set by Build
    cmOnce,      \* cm.once has fired
    cmDone,      \* cm.done is closed
    cmResult,    \* cm.result
    cmErr,       \* cm.err
    cmCancelled, \* cm.cancel was invoked; at 0: the context given to the
                 \* Build of the head stage was cancelled
    cmExec,      \* positions of the stage's execute calls: the goroutine of
                 \* Start ("go") and the synchronous call of Run ("run")
    cmSpawned,   \* how many external processes the stage spawned
    cmRuns,      \* how many times execute was entered
    cmWrites,    \* how many times the result/error slots were written
    cmCloses,    \* how many times close(cm.done) ran
    panicked,    \* close of a closed channel: the program has panicked
    cmWaiting,   \* a Wait call on the stage has not returned
    cmWaitRets,  \* the (result, error) pairs returned by Wait calls
    cmRunCalls,  \* Run calls made on the stage
    cmRunRets,   \* the (result, error) pairs returned by Run calls
    builder,     \* the Builder made by New: Cmd and components
    subCmd,      \* the SubCmd made from it by SubCommand, if any
    cmds         \* the cmdImpl values built so far: cmd, args and parent

futureVars == <<fn, once, pc, local, res, err, done, cancelled, parentDone,
                runs, writes, closes>>
callerVars == <<startCalls, startRet, waiters, waitRets, waitCount, seenDone,
                cancelledEarly, cancelledLate>>
waitAllVars == <<scopeDone, waFus, waPc, waI, waJ, waRes, waRet, waCancels,
                 waOutOfOrder>>
timeoutVars == <<wtPc, wtFu, wtExpired, wtSaw, wtRet, wtCancels>>
stageVars == <<cmdKind, cmOnce, cmDone, cmResult, cmErr, cmCancelled, cmExec,
               cmSpawned, cmRuns, cmWrites, cmCloses, panicked, cmWaiting,
               cmWaitRets, cmRunCalls, cmRunRets>>
builderVars == <<builder, subCmd, cmds>>
extVars == <<timeoutVars, stageVars, builderVars>>
vars == <<futureVars, callerVars, waitAllVars, extVars>>

\* ------------------------------------------------------------- contexts
\* New: childCtx is derived from ctx, so it is done when its own cancel ran
\* or when the parent is done.
CtxDoneParentOnly(f) == parentDone

CtxDone(f) == cancelled[f] \/ parentDone

CtxErr(f) == IF CtxDone(f) THEN Canceled ELSE Nil

\* ------------------------------------------------------------- Init
\* No WaitTimeout call is in progress.
NoPair == [isSet |-> FALSE, val |-> Zero, err |-> Nil]

InitTimeout ==
    /\ wtPc = "idle"
    /\ wtFu = 0
    /\ wtExpired = FALSE
    /\ wtSaw = [done |-> FALSE, expired |-> FALSE]
    /\ wtRet = NoPair
    /\ wtCancels = 0

\* ------------------------------------------------------------- stages
\* A chain built with Build and Pipe(...).Build(): stage 1 has no parent and
\* the parent of stage s > 1 is stage s - 1 (0 stands for a nil parent).
Stages == 1..NumStages
Parent(s) == s - 1
Ancestors(s) == 1..(s - 1)

\* What the external command of a stage does when it is left to complete:
\*   ok       writes its output and exits with code 0
\*   exit     writes to stderr and exits with code 1
\*   missing  the executable cannot be found: no process can be spawned
CmdKinds == {"ok", "exit", "missing"}

\* The errors cmd.Run() returns: an *exec.ExitError for a process that exited
\* with a non-zero code or was killed, another error when no process ran.
ExitErr(s) == "exit status 1 of " \o ToString(s)
Killed(s) == "signal: killed " \o ToString(s)
NotFound(s) == "executable file not found " \o ToString(s)
IsExitError(e) == \E s \in Stages : e \in {ExitErr(s), Killed(s)}

\* The bytes a stage's process writes to its stdout when it succeeds: the
\* bytes it read from its stdin followed by bytes of its own; and the bytes a
\* failing process writes to its stderr.
Out(s, input) == Append(input, s)
Diag(s) == <<"diag", s>>

\* resultImpl; cm.result is nil until execute has stored one.
Result(c, o, d) == [isNil |-> FALSE, exitCode |-> c, stdout |-> o, stderr |-> d]
NilResult == [isNil |-> TRUE, exitCode |-> 0, stdout |-> <<>>, stderr |-> <<>>]
FailedResult == Result(-1, <<>>, <<>>)

\* No chain is built yet.
Unbuilt == "unbuilt"

InitStages ==
    /\ cmdKind = [s \in Stages |-> Unbuilt]
    /\ cmOnce = [s \in Stages |-> FALSE]
    /\ cmDone = [s \in Stages |-> FALSE]
    /\ cmResult = [s \in Stages |-> NilResult]
    /\ cmErr = [s \in Stages |-> Nil]
    /\ cmCancelled = [s \in 0..NumStages |-> FALSE]
    /\ cmExec = [s \in Stages |-> [go |-> "idle", run |-> "idle"]]
    /\ cmSpawned = [s \in Stages |-> 0]
    /\ cmRuns = [s \in Stages |-> 0]
    /\ cmWrites = [s \in Stages |-> 0]
    /\ cmCloses = [s \in Stages |-> 0]
    /\ panicked = FALSE
    /\ cmWaiting = [s \in Stages |-> FALSE]
    /\ cmWaitRets = [s \in Stages |-> {}]
    /\ cmRunCalls = [s \in Stages |-> 0]
    /\ cmRunRets = [s \in Stages |-> {}]

\* ------------------------------------------------------------- builders
\* New("git"): a Builder with no component; no SubCmd and no Cmd exist.
NoSubCmd == [isNil |-> TRUE, Cmd |-> "", components |-> <<>>]

InitBuilder ==
    /\ builder = [Cmd |-> "git", components |-> <<>>]
    /\ subCmd = NoSubCmd
    /\ cmds = <<>>

InitExt == InitTimeout /\ InitStages /\ InitBuilder

\* New for every future; no WaitAll call is in progress.
NoRet == [isSet |-> FALSE, isNil |-> TRUE, items |-> <<>>, err |-> Nil]

InitFutures ==
    /\ fn \in { t \in [AllFutures -> UNION { Tasks(f) : f \in AllFutures }] :
                    \A f \in AllFutures : t[f] \in Tasks(f) }
    /\ once = [f \in AllFutures |-> FALSE]
    /\ pc = [f \in AllFutures |-> "none"]
    /\ local = [f \in AllFutures |-> <<Zero, Nil>>]
    /\ res = [f \in AllFutures |-> Zero]
    /\ err = [f \in AllFutures |-> Nil]
    /\ done = [f \in AllFutures |-> FALSE]
    /\ cancelled = [f \in AllFutures |-> FALSE]
    /\ parentDone = FALSE
    /\ runs = [f \in AllFutures |-> 0]
    /\ writes = [f \in AllFutures |-> 0]
    /\ closes = [f \in AllFutures |-> 0]
    /\ startCalls = [f \in AllFutures |-> 0]
    /\ startRet = [f \in AllFutures |-> {}]
    /\ waiters = [f \in AllFutures |-> 0]
    /\ waitRets = [f \in AllFutures |-> {}]
    /\ waitCount = [f \in AllFutures |-> 0]
    /\ seenDone = [f \in AllFutures |-> FALSE]
    /\ cancelledEarly = [f \in AllFutures |-> FALSE]
    /\ cancelledLate = [f \in AllFutures |-> FALSE]
    /\ scopeDone = FALSE
    /\ waFus = <<>>
    /\ waPc = "idle"
    /\ waI = 0
    /\ waJ = 0
    /\ waRes = <<>>
    /\ waRet = NoRet
    /\ waCancels = {}
    /\ waOutOfOrder = FALSE
    /\ InitExt

\* ------------------------------------------------------------- futureImpl
\* A start-latch that tests "not running" instead of "never started".
StartRestart(f) ==
    /\ startCalls' = [startCalls EXCEPT ![f] = IF @ < 2 THEN @ + 1 ELSE @]
    /\ startRet' = [startRet EXCEPT ![f] = @ \cup {f}]
    /\ IF pc[f] \in {"none", "closed"} /\ runs[f] < 2
         THEN /\ once' = [once EXCEPT ![f] = TRUE]
              /\ pc' = [pc EXCEPT ![f] = "fn"]
              /\ runs' = [runs EXCEPT ![f] = @ + 1]
         ELSE UNCHANGED <<once, pc, runs>>
    /\ UNCHANGED <<fn, local, res, err, done, cancelled, parentDone, writes,
                   closes, waiters, waitRets, waitCount, seenDone,
                   cancelledEarly, cancelledLate, waitAllVars>>
    /\ UNCHANGED extVars

\* A Start that, finding the context already cancelled, fires the completion
\* signal at once instead of running the task body.
StartSkipsCancelled(f) ==
    /\ startCalls' = [startCalls EXCEPT ![f] = IF @ < 2 THEN @ + 1 ELSE @]
    /\ startRet' = [startRet EXCEPT ![f] = @ \cup {f}]
    /\ IF ~once[f] /\ ~cancelled[f]
         THEN /\ once' = [once EXCEPT ![f] = TRUE]
              /\ pc' = [pc EXCEPT ![f] = "fn"]
              /\ runs' = [runs EXCEPT ![f] = @ + 1]
              /\ UNCHANGED <<done, closes>>
         ELSE IF ~once[f]
         THEN /\ once' = [once EXCEPT ![f] = TRUE]
              /\ pc' = [pc EXCEPT ![f] = "closed"]
              /\ done' = [done EXCEPT ![f] = TRUE]
              /\ closes' = [closes EXCEPT ![f] = @ + 1]
              /\ UNCHANGED runs
         ELSE UNCHANGED <<once, pc, runs, done, closes>>
    /\ UNCHANGED <<fn, local, res, err, cancelled, parentDone, writes,
                   waiters, waitRets, waitCount, seenDone,
                   cancelledEarly, cancelledLate, waitAllVars>>
    /\ UNCHANGED extVars

\* Start: fu.once.Do(func() { go fu.execute() }); return fu.  sync.Once lets
\* exactly one of any number of racing callers through, so the call is one step.
Start(f) ==
    /\ startCalls' = [startCalls EXCEPT ![f] = IF @ < 2 THEN @ + 1 ELSE @]
    /\ startRet' = [startRet EXCEPT ![f] = @ \cup {f}]
    /\ IF ~once[f]
         THEN /\ once' = [once EXCEPT ![f] = TRUE]
              /\ pc' = [pc EXCEPT ![f] = "fn"]
              /\ runs' = [runs EXCEPT ![f] = @ + 1]
         ELSE UNCHANGED <<once, pc, runs>>
    /\ UNCHANGED <<fn, local, res, err, done, cancelled, parentDone, writes,
                   closes, waiters, waitRets, waitCount, seenDone,
                   cancelledEarly, cancelledLate, waitAllVars>>
    /\ UNCHANGED extVars

\* A Cancel that also fires the completion signal.
CancelCloses(f) ==
    /\ cancelled' = [cancelled EXCEPT ![f] = TRUE]
    /\ IF done[f]
         THEN UNCHANGED <<done, closes>>
         ELSE /\ done' = [done EXCEPT ![f] = TRUE]
              /\ closes' = [closes EXCEPT ![f] = @ + 1]
    /\ UNCHANGED <<fn, once, pc, local, res, err, parentDone, runs, writes>>

\* A Cancel that records the cancellation in the error slot.
CancelStoresErr(f) ==
    /\ cancelled' = [cancelled EXCEPT ![f] = TRUE]
    /\ err' = [err EXCEPT ![f] = Canceled]
    /\ UNCHANGED <<fn, once, pc, local, res, done, parentDone, runs, writes,
                   closes>>

\* Cancel: fu.cancel() cancels the child scope; nothing else of the future is
\* touched.
Cancel(f) ==
    /\ cancelled' = [cancelled EXCEPT ![f] = TRUE]
    /\ UNCHANGED <<fn, once, pc, local, res, err, done, parentDone, runs,
                   writes, closes>>

\* What a caller's Cancel call adds to the history: when, in the future's
\* life, it came.
CancelHistory(f) ==
    /\ cancelledEarly' = [cancelledEarly EXCEPT
                            ![f] = @ \/ pc[f] \in {"none", "fn"}]
    /\ cancelledLate' = [cancelledLate EXCEPT ![f] = @ \/ done[f]]

\* A caller calls Cancel.
CancelCall(f) ==
    /\ Cancel(f)
    /\ CancelHistory(f)
    /\ UNCHANGED <<startCalls, startRet, waiters, waitRets, waitCount,
                   seenDone, waitAllVars, extVars>>

\* The caller of New cancels the context it gave to New.
ParentCancel ==
    /\ ~parentDone
    /\ parentDone' = TRUE
    /\ cancelledEarly' = [f \in AllFutures |->
                            cancelledEarly[f] \/ pc[f] \in {"none", "fn"}]
    /\ UNCHANGED <<fn, once, pc, local, res, err, done, cancelled, runs,
                   writes, closes, startCalls, startRet, waiters, waitRets,
                   waitCount, seenDone, cancelledLate, waitAllVars>>
    /\ UNCHANGED extVars

\* What the task body returns when it completes now.
BodyReturn(f) ==
    IF fn[f].kind = "observe" /\ CtxDone(f)
      THEN <<Zero, CtxErr(f)>>
      ELSE <<fn[f].val, fn[f].err>>

\* execute: result, err := fu.fn(fu.ctx) returns.
ExecBody(f) ==
    /\ pc[f] = "fn"
    /\ local' = [local EXCEPT ![f] = BodyReturn(f)]
    /\ pc' = [pc EXCEPT ![f] = "ret"]
    /\ UNCHANGED <<fn, once, res, err, done, cancelled, parentDone, runs,
                   writes, closes, callerVars, waitAllVars>>
    /\ UNCHANGED extVars

\* close(fu.done) placed before the store instead of deferred.
ExecStoreSwapped(f) ==
    /\ pc[f] = "ret"
    /\ IF ~done[f]
         THEN /\ done' = [done EXCEPT ![f] = TRUE]
              /\ closes' = [closes EXCEPT ![f] = @ + 1]
              /\ UNCHANGED <<res, err, writes, pc>>
         ELSE /\ res' = [res EXCEPT ![f] = local[f][1]]
              /\ err' = [err EXCEPT ![f] = local[f][2]]
              /\ writes' = [writes EXCEPT ![f] = @ + 1]
              /\ pc' = [pc EXCEPT ![f] = "closed"]
              /\ UNCHANGED <<done, closes>>
    /\ UNCHANGED <<fn, once, local, cancelled, parentDone, runs, callerVars,
                   waitAllVars>>
    /\ UNCHANGED extVars

\* A store that reports a cancelled scope instead of the body's own values.
ExecStoreCtxErr(f) ==
    /\ pc[f] = "ret"
    /\ res' = [res EXCEPT ![f] = IF CtxDone(f) THEN Zero ELSE local[f][1]]
    /\ err' = [err EXCEPT ![f] = IF CtxDone(f) THEN CtxErr(f) ELSE local[f][2]]
    /\ writes' = [writes EXCEPT ![f] = @ + 1]
    /\ pc' = [pc EXCEPT ![f] = "stored"]
    /\ UNCHANGED <<fn, once, local, done, cancelled, parentDone, runs,
                   closes, callerVars, waitAllVars>>
    /\ UNCHANGED extVars

\* execute: fu.mu.Lock(); fu.res = result; fu.err = err; fu.mu.Unlock()
ExecStore(f) ==
    /\ pc[f] = "ret"
    /\ res' = [res EXCEPT ![f] = local[f][1]]
    /\ err' = [err EXCEPT ![f] = local[f][2]]
    /\ writes' = [writes EXCEPT ![f] = @ + 1]
    /\ pc' = [pc EXCEPT ![f] = "stored"]
    /\ UNCHANGED <<fn, once, local, done, cancelled, parentDone, runs,
                   closes, callerVars, waitAllVars>>
    /\ UNCHANGED extVars

\* execute: the deferred close(fu.done).
ExecClose(f) ==
    /\ pc[f] = "stored"
    /\ done' = [done EXCEPT ![f] = TRUE]
    /\ closes' = [closes EXCEPT ![f] = @ + 1]
    /\ pc' = [pc EXCEPT ![f] = "closed"]
    /\ UNCHANGED <<fn, once, local, res, err, cancelled, parentDone, runs,
                   writes, callerVars, waitAllVars>>
    /\ UNCHANGED extVars

\* A Wait that starts the future, as a pipeline stage's Wait does.
WaitCallStarts(f) ==
    /\ waiters[f] < MaxWaiters
    /\ waiters' = [waiters EXCEPT ![f] = @ + 1]
    /\ IF ~once[f]
         THEN /\ once' = [once EXCEPT ![f] = TRUE]
              /\ pc' = [pc EXCEPT ![f] = "fn"]
              /\ runs' = [runs EXCEPT ![f] = @ + 1]
         ELSE UNCHANGED <<once, pc, runs>>
    /\ UNCHANGED <<fn, local, res, err, done, cancelled, parentDone, writes,
                   closes, startCalls, startRet, waitRets, waitCount,
                   seenDone, cancelledEarly, cancelledLate, waitAllVars>>
    /\ UNCHANGED extVars

\* Wait, up to its receive: the caller blocks on <-fu.done.
WaitCall(f) ==
    /\ waiters[f] < MaxWaiters
    /\ waiters' = [waiters EXCEPT ![f] = @ + 1]
    /\ UNCHANGED <<futureVars, startCalls, startRet, waitRets, waitCount,
                   seenDone, cancelledEarly, cancelledLate, waitAllVars>>
    /\ UNCHANGED extVars

\* A Wait that reads the slots without waiting for the completion signal.
WaitReturnNoBlock(f) ==
    /\ waiters[f] > 0
    /\ waiters' = [waiters EXCEPT ![f] = @ - 1]
    /\ waitRets' = [waitRets EXCEPT ![f] = @ \cup {<<res[f], err[f]>>}]
    /\ waitCount' = [waitCount EXCEPT ![f] = IF @ < 2 THEN @ + 1 ELSE @]
    /\ UNCHANGED <<futureVars, startCalls, startRet, seenDone,
                   cancelledEarly, cancelledLate, waitAllVars>>
    /\ UNCHANGED extVars

\* Wait, from its receive: <-fu.done succeeded; return fu.res, fu.err (RLock).
WaitReturn(f) ==
    /\ waiters[f] > 0
    /\ done[f]
    /\ waiters' = [waiters EXCEPT ![f] = @ - 1]
    /\ waitRets' = [waitRets EXCEPT ![f] = @ \cup {<<res[f], err[f]>>}]
    /\ waitCount' = [waitCount EXCEPT ![f] = IF @ < 2 THEN @ + 1 ELSE @]
    /\ UNCHANGED <<futureVars, startCalls, startRet, seenDone,
                   cancelledEarly, cancelledLate, waitAllVars>>
    /\ UNCHANGED extVars

\* IsDone: the non-blocking select on fu.done.
IsDone(f) == done[f]

\* A caller polls IsDone (or selects on the channel Done returns).
IsDoneCall(f) ==
    /\ seenDone' = [seenDone EXCEPT ![f] = @ \/ IsDone(f)]
    /\ UNCHANGED <<futureVars, startCalls, startRet, waiters, waitRets,
                   waitCount, cancelledEarly, cancelledLate, waitAllVars>>
    /\ UNCHANGED extVars

\* ------------------------------------------------------------- Spec
\* Any interleaving of Start, Cancel, Wait and IsDone calls on the probe
\* futures, of the cancellation of their parent context, and of the steps of
\* their execute goroutines.
Init ==
    /\ InitFutures
    /\ \A f \in AllFutures \ Probes : fn[f] = [kind |-> "const", val |-> R(f), err |-> Nil]

Next ==
    \/ \E f \in Probes : Start(f)
    \/ \E f \in Probes : CancelCall(f)
    \/ ParentCancel
    \/ \E f \in Probes : ExecBody(f)
    \/ \E f \in Probes : ExecStore(f)
    \/ \E f \in Probes : ExecClose(f)
    \/ \E f \in Probes : WaitCall(f)
    \/ \E f \in Probes : WaitReturn(f)
    \/ \E f \in Probes : IsDoneCall(f)

Spec == Init /\ [][Next]_vars

\* ------------------------------------------------------------- WaitAll
\* The argument lists given to WaitAll: any futures, in any order.
InputLists ==
    { l \in UNION { [1..n -> Futures] : n \in 0..NumFutures } :
          \A i, j \in DOMAIN l : i # j => l[i] # l[j] }

\* What WaitAll returns.
RetOk(items) == [isSet |-> TRUE, isNil |-> FALSE, items |-> items, err |-> Nil]
RetErr(e) == [isSet |-> TRUE, isNil |-> TRUE, items |-> <<>>, err |-> e]

\* res allocated with a length instead of a capacity.
WaitAllCallLen(l) ==
    /\ waPc = "idle"
    /\ waFus' = l
    /\ waRes' = [i \in 1..Len(l) |-> Zero]
    /\ waI' = 1
    /\ waPc' = "select"
    /\ UNCHANGED <<futureVars, callerVars, scopeDone, waJ, waRet, waCancels,
                   waOutOfOrder>>
    /\ UNCHANGED extVars

\* A WaitAll that starts the futures it is given.
WaitAllCallStarts(l) ==
    /\ waPc = "idle"
    /\ waFus' = l
    /\ waRes' = <<>>
    /\ waI' = 1
    /\ waPc' = "select"
    /\ once' = [f \in AllFutures |->
                   once[f] \/ \E j \in 1..Len(l) : l[j] = f]
    /\ pc' = [f \in AllFutures |->
                 IF ~once[f] /\ \E j \in 1..Len(l) : l[j] = f
                   THEN "fn" ELSE pc[f]]
    /\ runs' = [f \in AllFutures |->
                   IF ~once[f] /\ \E j \in 1..Len(l) : l[j] = f
                     THEN runs[f] + 1 ELSE runs[f]]
    /\ UNCHANGED <<fn, local, res, err, done, cancelled, parentDone, writes,
                   closes>>
    /\ UNCHANGED <<callerVars, scopeDone, waJ, waRet, waCancels,
                   waOutOfOrder>>
    /\ UNCHANGED extVars

\* WaitAll(ctx, fus...): ctx, cancel := context.WithCancel(ctx);
\* res := make([]T, 0, len(fus)); enter the range loop.
WaitAllCall(l) ==
    /\ waPc = "idle"
    /\ waFus' = l
    /\ waRes' = <<>>
    /\ waI' = 1
    /\ waPc' = "select"
    /\ UNCHANGED <<futureVars, callerVars, scopeDone, waJ, waRet, waCancels,
                   waOutOfOrder>>
    /\ UNCHANGED extVars

\* The caller of WaitAll cancels the context it gave to it.
ScopeCancel ==
    /\ ~scopeDone
    /\ scopeDone' = TRUE
    /\ UNCHANGED <<futureVars, callerVars, waFus, waPc, waI, waJ, waRes,
                   waRet, waCancels, waOutOfOrder>>
    /\ UNCHANGED extVars

\* A receive branch that does not look at the error.
WaitAllRecvNoCheck ==
    /\ waPc = "select"
    /\ waI <= Len(waFus)
    /\ done[waFus[waI]]
    /\ waOutOfOrder' =
          (waOutOfOrder \/ \E j \in (waI + 1)..Len(waFus) : done[waFus[j]])
    /\ waRes' = Append(waRes, res[waFus[waI]])
    /\ waI' = waI + 1
    /\ UNCHANGED <<waPc, waRet>>
    /\ UNCHANGED <<futureVars, callerVars, scopeDone, waFus, waJ, waCancels>>
    /\ UNCHANGED extVars

\* A receive branch that cancels every future when one reports an error.
WaitAllRecvCancels ==
    /\ waPc = "select"
    /\ waI <= Len(waFus)
    /\ done[waFus[waI]]
    /\ waOutOfOrder' =
          (waOutOfOrder \/ \E j \in (waI + 1)..Len(waFus) : done[waFus[j]])
    /\ IF err[waFus[waI]] # Nil
         THEN /\ waRet' = RetErr(err[waFus[waI]])
              /\ waPc' = "returned"
              /\ cancelled' = [f \in AllFutures |->
                                 cancelled[f] \/ \E j \in 1..Len(waFus) : waFus[j] = f]
              /\ waCancels' = waCancels \cup { waFus[j] : j \in 1..Len(waFus) }
              /\ UNCHANGED <<waRes, waI>>
         ELSE /\ waRes' = Append(waRes, res[waFus[waI]])
              /\ waI' = waI + 1
              /\ UNCHANGED <<waPc, waRet, cancelled, waCancels>>
    /\ UNCHANGED <<fn, once, pc, local, res, err, done, parentDone, runs,
                   writes, closes>>
    /\ UNCHANGED <<callerVars, scopeDone, waFus, waJ>>
    /\ UNCHANGED extVars

\* case <-fu.Done(): r, err := fu.Wait(), which returns the slots at once
\* because the signal has fired; a non-nil err ends WaitAll with (nil, err),
\* otherwise r is appended and the loop goes on.
WaitAllRecv ==
    /\ waPc = "select"
    /\ waI <= Len(waFus)
    /\ done[waFus[waI]]
    /\ waOutOfOrder' =
          (waOutOfOrder \/ \E j \in (waI + 1)..Len(waFus) : done[waFus[j]])
    /\ IF err[waFus[waI]] # Nil
         THEN /\ waRet' = RetErr(err[waFus[waI]])
              /\ waPc' = "returned"
              /\ UNCHANGED <<waRes, waI>>
         ELSE /\ waRes' = Append(waRes, res[waFus[waI]])
              /\ waI' = waI + 1
              /\ UNCHANGED <<waPc, waRet>>
    /\ UNCHANGED <<futureVars, callerVars, scopeDone, waFus, waJ, waCancels>>
    /\ UNCHANGED extVars

\* A check of the context that is made even when no future is left to receive.
WaitAllCtxDoneAnywhere ==
    /\ waPc = "select"
    /\ scopeDone
    /\ waPc' = "cancel"
    /\ waJ' = 1
    /\ UNCHANGED <<futureVars, callerVars, scopeDone, waFus, waI, waRes,
                   waRet, waCancels, waOutOfOrder>>
    /\ UNCHANGED extVars

\* A select that has the ctx.Done() case for the first future only.
WaitAllCtxDoneFirstOnly ==
    /\ waPc = "select"
    /\ waI <= Len(waFus)
    /\ waI = 1
    /\ scopeDone
    /\ waPc' = "cancel"
    /\ waJ' = 1
    /\ UNCHANGED <<futureVars, callerVars, scopeDone, waFus, waI, waRes,
                   waRet, waCancels, waOutOfOrder>>
    /\ UNCHANGED extVars

\* case <-ctx.Done(): enter the loop that cancels every future.  The derived
\* ctx is done as soon as the caller's is; select may take this branch also
\* when the future's signal has fired.
WaitAllCtxDone ==
    /\ waPc = "select"
    /\ waI <= Len(waFus)
    /\ scopeDone
    /\ waPc' = "cancel"
    /\ waJ' = 1
    /\ UNCHANGED <<futureVars, callerVars, scopeDone, waFus, waI, waRes,
                   waRet, waCancels, waOutOfOrder>>
    /\ UNCHANGED extVars

\* for _, fu := range fus { fu.Cancel() }: one iteration.
WaitAllCancel ==
    /\ waPc = "cancel"
    /\ waJ <= Len(waFus)
    /\ Cancel(waFus[waJ])
    /\ waCancels' = waCancels \cup {waFus[waJ]}
    /\ waJ' = waJ + 1
    /\ UNCHANGED <<callerVars, scopeDone, waFus, waPc, waI, waRes, waRet,
                   waOutOfOrder>>
    /\ UNCHANGED extVars

\* return nil, ctx.Err() after the cancelling loop.
WaitAllReturnCancelled ==
    /\ waPc = "cancel"
    /\ waJ > Len(waFus)
    /\ waRet' = RetErr(Canceled)
    /\ waPc' = "returned"
    /\ UNCHANGED <<futureVars, callerVars, scopeDone, waFus, waI, waJ, waRes,
                   waCancels, waOutOfOrder>>
    /\ UNCHANGED extVars

\* return res, nil after the range loop.
WaitAllReturnAll ==
    /\ waPc = "select"
    /\ waI > Len(waFus)
    /\ waRet' = RetOk(waRes)
    /\ waPc' = "returned"
    /\ UNCHANGED <<futureVars, callerVars, scopeDone, waFus, waI, waJ, waRes,
                   waCancels, waOutOfOrder>>
    /\ UNCHANGED extVars

\* The owner of a future cancels it while WaitAll runs.
OwnerCancel(f) ==
    /\ Cancel(f)
    /\ UNCHANGED <<callerVars, waitAllVars, extVars>>

\* One WaitAll call on any list of the futures, which their owner starts
\* (once each: further Start calls change nothing) and cancels at any time,
\* while the caller may cancel the scope given to WaitAll.
InitWaitAll == InitFutures

NextWaitAll ==
    \/ \E f \in Futures : startCalls[f] = 0 /\ Start(f)
    \/ \E f \in Futures : OwnerCancel(f)
    \/ \E f \in Futures : ExecBody(f)
    \/ \E f \in Futures : ExecStore(f)
    \/ \E f \in Futures : ExecClose(f)
    \/ ScopeCancel
    \/ \E l \in InputLists : WaitAllCall(l)
    \/ WaitAllRecv
    \/ WaitAllCtxDone
    \/ WaitAllCancel
    \/ WaitAllReturnCancelled
    \/ WaitAllReturnAll

SpecWaitAll == InitWaitAll /\ [][NextWaitAll]_vars

\* The steps of the goroutine that runs WaitAll.  The Go scheduler runs a
\* goroutine that can run: a select with a ready case proceeds, and neither
\* fu.Wait() after the signal fired nor fu.Cancel() blocks.  The futures and
\* their owner get no such assumption: a future may never be started and a
\* task body may never return.
WaitAllStep ==
    \/ WaitAllRecv
    \/ WaitAllCtxDone
    \/ WaitAllCancel
    \/ WaitAllReturnCancelled
    \/ WaitAllReturnAll

SpecWaitAllFair == SpecWaitAll /\ WF_vars(WaitAllStep)

\* ------------------------------------------------------------- WaitTimeout
\* What WaitTimeout returns.
Pair(v, e) == [isSet |-> TRUE, val |-> v, err |-> e]

\* WaitTimeout(d, fu): ctx, cancel := context.WithTimeout(Background(), d);
\* the call then stands at its select.
WaitTimeoutCall(f) ==
    /\ wtPc = "idle"
    /\ wtFu' = f
    /\ wtPc' = "select"
    /\ UNCHANGED <<wtExpired, wtSaw, wtRet, wtCancels>>
    /\ UNCHANGED <<futureVars, callerVars, waitAllVars, stageVars, builderVars>>

\* The duration d has elapsed: ctx.Done() is closed and ctx.Err() is
\* context.DeadlineExceeded.  d is any duration, so this happens at any time
\* after the call.
DeadlinePasses ==
    /\ wtPc = "select"
    /\ ~wtExpired
    /\ wtExpired' = TRUE
    /\ UNCHANGED <<wtPc, wtFu, wtSaw, wtRet, wtCancels>>
    /\ UNCHANGED <<futureVars, callerVars, waitAllVars, stageVars, builderVars>>

\* A receive branch that also cancels the future.
WaitTimeoutRecvCancels ==
    /\ wtPc = "select"
    /\ done[wtFu]
    /\ wtSaw' = [done |-> TRUE, expired |-> wtExpired]
    /\ Cancel(wtFu)
    /\ wtCancels' = wtCancels + 1
    /\ wtRet' = Pair(res[wtFu], err[wtFu])
    /\ wtPc' = "returned"
    /\ UNCHANGED <<wtFu, wtExpired>>
    /\ UNCHANGED <<callerVars, waitAllVars, stageVars, builderVars>>

\* case <-fu.Done(): return fu.Wait(), which returns the slots at once because
\* the signal has fired.
WaitTimeoutRecv ==
    /\ wtPc = "select"
    /\ done[wtFu]
    /\ wtSaw' = [done |-> TRUE, expired |-> wtExpired]
    /\ wtRet' = Pair(res[wtFu], err[wtFu])
    /\ wtPc' = "returned"
    /\ UNCHANGED <<wtFu, wtExpired, wtCancels>>
    /\ UNCHANGED <<futureVars, callerVars, waitAllVars, stageVars, builderVars>>

\* A timeout branch that returns without cancelling the future.
WaitTimeoutExpiredNoCancel ==
    /\ wtPc = "select"
    /\ wtExpired
    /\ wtSaw' = [done |-> done[wtFu], expired |-> TRUE]
    /\ wtRet' = Pair(Zero, DeadlineExceeded)
    /\ wtPc' = "returned"
    /\ UNCHANGED <<wtFu, wtExpired, wtCancels>>
    /\ UNCHANGED <<futureVars, callerVars, waitAllVars, stageVars, builderVars>>

\* case <-ctx.Done(): fu.Cancel(); return r, ctx.Err() with r the zero value
\* of the named result.  select may take this branch also when the future's
\* signal has fired.
WaitTimeoutExpired ==
    /\ wtPc = "select"
    /\ wtExpired
    /\ wtSaw' = [done |-> done[wtFu], expired |-> TRUE]
    /\ Cancel(wtFu)
    /\ wtCancels' = wtCancels + 1
    /\ wtRet' = Pair(Zero, DeadlineExceeded)
    /\ wtPc' = "returned"
    /\ UNCHANGED <<wtFu, wtExpired>>
    /\ UNCHANGED <<callerVars, waitAllVars, stageVars, builderVars>>

\* One WaitTimeout call on a future which its owner starts (once: further
\* Start calls change nothing) and cancels at any time, before or during the
\* call.
InitTimeoutCall == InitFutures

NextTimeout ==
    \/ \E f \in Probes : startCalls[f] = 0 /\ Start(f)
    \/ \E f \in Probes : OwnerCancel(f)
    \/ \E f \in Probes : ExecBody(f)
    \/ \E f \in Probes : ExecStore(f)
    \/ \E f \in Probes : ExecClose(f)
    \/ \E f \in Probes : WaitTimeoutCall(f)
    \/ DeadlinePasses
    \/ WaitTimeoutRecv
    \/ WaitTimeoutExpired

SpecTimeout == InitTimeoutCall /\ [][NextTimeout]_vars

\* One WaitAll call and one WaitTimeout call, on futures which their owner
\* starts (once each: further Start calls change nothing) or leaves
\* unstarted; the caller may cancel the scope given to WaitAll and the
\* deadline of WaitTimeout passes at any time.
NextWaiters ==
    \/ \E f \in Futures : startCalls[f] = 0 /\ Start(f)
    \/ \E f \in Futures : ExecBody(f)
    \/ \E f \in Futures : ExecStore(f)
    \/ \E f \in Futures : ExecClose(f)
    \/ ScopeCancel
    \/ \E l \in InputLists : WaitAllCall(l)
    \/ WaitAllRecv
    \/ WaitAllCtxDone
    \/ WaitAllCancel
    \/ WaitAllReturnCancelled
    \/ WaitAllReturnAll
    \/ \E f \in Probes : WaitTimeoutCall(f)
    \/ DeadlinePasses
    \/ WaitTimeoutRecv
    \/ WaitTimeoutExpired

SpecWaiters == InitFutures /\ [][NextWaiters]_vars

\* ------------------------------------------------------------- cmdImpl
\* The chains of n stages: a command for each of the stages 1..n.
Chains(n) ==
    { k \in [Stages -> CmdKinds \cup {Unbuilt}] :
          \A s \in Stages : (k[s] = Unbuilt) <=> (s > n) }

\* Builder.Build(ctx) for stage 1 and Pipe(...).Build() for every next stage,
\* with any commands: the fields of every cmdImpl are as InitStages left them
\* (done open, once not fired, result and err nil) and no execution is
\* scheduled.
BuildChain(k) ==
    /\ cmdKind[1] = Unbuilt
    /\ cmdKind' = k
    /\ UNCHANGED <<cmOnce, cmDone, cmResult, cmErr, cmCancelled, cmExec,
                   cmSpawned, cmRuns, cmWrites, cmCloses, panicked, cmWaiting,
                   cmWaitRets, cmRunCalls, cmRunRets>>
    /\ UNCHANGED <<futureVars, callerVars, waitAllVars, timeoutVars, builderVars>>

\* Stage s exists and the program runs: no goroutine has panicked.
Running(s) == cmdKind[s] # Unbuilt /\ ~panicked

\* A stage whose context is derived from context.Background().
StageCtxDoneOwn(s) == cmCancelled[s]

\* PipeBuilder.Build gives a stage the context of its parent, from which
\* Builder.Build derives the stage's own, and the head stage's is derived
\* from the context given to its Build: a stage's context is done when its
\* own cancel or the cancel of any stage upstream of it was invoked, or when
\* the context the head was built with is cancelled.

StageCtxDone(s) == \E a \in 0..s : cmCancelled[a]

\* cm.Wait() on stage s (0: no stage) can return: its parent's Wait can, and
\* either that one returns an error or cm.done is closed.
RECURSIVE WaitReady(_), WaitVal(_)
WaitReady(s) ==
    IF s = 0 THEN TRUE
    ELSE /\ WaitReady(Parent(s))
         /\ \/ Parent(s) # 0 /\ WaitVal(Parent(s)).err # Nil
            \/ cmDone[s]

\* What cm.Wait() on stage s returns then: the parent's (r, err) when that
\* err is not nil, the stage's own slots otherwise.
WaitVal(s) ==
    IF Parent(s) # 0 /\ WaitVal(Parent(s)).err # Nil
      THEN WaitVal(Parent(s))
      ELSE [result |-> cmResult[s], err |-> cmErr[s]]

\* cm.Start() on stage s (0: no stage): parent.Start() first, recursively up
\* to stage 1, then cm.once.Do(go cm.execute()): every stage from 1 to s whose
\* latch has not fired gets its execute goroutine, which stands at its first
\* step.  These are the latches, the positions and the entry counts after it.
\* A Start that fires the stage's own latch only.
OnceAfterStartOwn(s) == [a \in Stages |-> cmOnce[a] \/ a = s]

OnceAfterStart(s) == [a \in Stages |-> cmOnce[a] \/ a <= s]

ExecAfterStart(s) ==
    [a \in Stages |->
        IF a <= s /\ ~cmOnce[a] THEN [cmExec[a] EXCEPT !.go = "wait"]
                                ELSE cmExec[a]]

RunsAfterStart(s) ==
    [a \in Stages |-> IF a <= s /\ ~cmOnce[a] THEN cmRuns[a] + 1 ELSE cmRuns[a]]

\* A caller calls Start on stage s.
StageStart(s) ==
    /\ Running(s)
    /\ cmOnce' = OnceAfterStart(s)
    /\ cmExec' = ExecAfterStart(s)
    /\ cmRuns' = RunsAfterStart(s)
    /\ UNCHANGED <<cmdKind, cmDone, cmResult, cmErr, cmCancelled, cmSpawned,
                   cmWrites, cmCloses, panicked, cmWaiting, cmWaitRets,
                   cmRunCalls, cmRunRets>>
    /\ UNCHANGED <<futureVars, callerVars, waitAllVars, timeoutVars, builderVars>>

\* A Cancel that cancels the stage's own scope only.
StageCancelOwn(s) ==
    /\ Running(s)
    /\ cmCancelled' = [cmCancelled EXCEPT ![s] = TRUE]
    /\ UNCHANGED <<cmdKind, cmOnce, cmDone, cmResult, cmErr, cmExec, cmSpawned,
                   cmRuns, cmWrites, cmCloses, panicked, cmWaiting, cmWaitRets,
                   cmRunCalls, cmRunRets>>
    /\ UNCHANGED <<futureVars, callerVars, waitAllVars, timeoutVars, builderVars>>

\* A caller calls Cancel on stage s: parent.Cancel() first, recursively up to
\* stage 1, then cm.cancel(), which Build always sets.
StageCancel(s) ==
    /\ Running(s)
    /\ cmCancelled' = [a \in 0..NumStages |->
                          cmCancelled[a] \/ (1 <= a /\ a <= s)]
    /\ UNCHANGED <<cmdKind, cmOnce, cmDone, cmResult, cmErr, cmExec, cmSpawned,
                   cmRuns, cmWrites, cmCloses, panicked, cmWaiting, cmWaitRets,
                   cmRunCalls, cmRunRets>>
    /\ UNCHANGED <<futureVars, callerVars, waitAllVars, timeoutVars, builderVars>>

\* A caller calls Run on stage s: cm.execute() in the caller's goroutine,
\* without a look at cm.once.  execute begins with parent.Wait(), whose first
\* statement is parent.Start().
StageRunCall(s) ==
    /\ Running(s)
    /\ cmExec[s].run = "idle"
    /\ cmRunCalls[s] < MaxRunCalls
    /\ cmRunCalls' = [cmRunCalls EXCEPT ![s] = @ + 1]
    /\ cmOnce' = OnceAfterStart(Parent(s))
    /\ cmExec' = [ExecAfterStart(Parent(s)) EXCEPT ![s].run = "wait"]
    /\ cmRuns' = [RunsAfterStart(Parent(s)) EXCEPT ![s] = @ + 1]
    /\ UNCHANGED <<cmdKind, cmDone, cmResult, cmErr, cmCancelled, cmSpawned,
                   cmWrites, cmCloses, panicked, cmWaiting, cmWaitRets,
                   cmRunRets>>
    /\ UNCHANGED <<futureVars, callerVars, waitAllVars, timeoutVars, builderVars>>

\* A Run that returns the result without the error.
StageRunReturnDropsErr(s) ==
    /\ Running(s)
    /\ cmExec[s].run = "end"
    /\ cmRunRets' = [cmRunRets EXCEPT
                       ![s] = @ \cup {[result |-> cmResult[s], err |-> Nil]}]
    /\ cmExec' = [cmExec EXCEPT ![s].run = "idle"]
    /\ UNCHANGED <<cmdKind, cmOnce, cmDone, cmResult, cmErr, cmCancelled,
                   cmSpawned, cmRuns, cmWrites, cmCloses, panicked, cmWaiting,
                   cmWaitRets, cmRunCalls>>
    /\ UNCHANGED <<futureVars, callerVars, waitAllVars, timeoutVars, builderVars>>

\* Run returns cm.result, cm.err once its execute call has returned.
StageRunReturn(s) ==
    /\ Running(s)
    /\ cmExec[s].run = "end"
    /\ cmRunRets' = [cmRunRets EXCEPT
                       ![s] = @ \cup {[result |-> cmResult[s], err |-> cmErr[s]]}]
    /\ cmExec' = [cmExec EXCEPT ![s].run = "idle"]
    /\ UNCHANGED <<cmdKind, cmOnce, cmDone, cmResult, cmErr, cmCancelled,
                   cmSpawned, cmRuns, cmWrites, cmCloses, panicked, cmWaiting,
                   cmWaitRets, cmRunCalls>>
    /\ UNCHANGED <<futureVars, callerVars, waitAllVars, timeoutVars, builderVars>>

\* A Wait that does not start the stage, as the Wait of the base future.
StageWaitCallNoStart(s) ==
    /\ Running(s)
    /\ ~cmWaiting[s]
    /\ cmWaiting' = [cmWaiting EXCEPT ![s] = TRUE]
    /\ UNCHANGED <<cmOnce, cmExec, cmRuns>>
    /\ UNCHANGED <<cmdKind, cmDone, cmResult, cmErr, cmCancelled, cmSpawned,
                   cmWrites, cmCloses, panicked, cmWaitRets, cmRunCalls,
                   cmRunRets>>
    /\ UNCHANGED <<futureVars, callerVars, waitAllVars, timeoutVars, builderVars>>

\* A caller calls Wait on stage s: cm.Start(), then the wait for the parent
\* and for cm.done begins.
StageWaitCall(s) ==
    /\ Running(s)
    /\ ~cmWaiting[s]
    /\ cmWaiting' = [cmWaiting EXCEPT ![s] = TRUE]
    /\ cmOnce' = OnceAfterStart(s)
    /\ cmExec' = ExecAfterStart(s)
    /\ cmRuns' = RunsAfterStart(s)
    /\ UNCHANGED <<cmdKind, cmDone, cmResult, cmErr, cmCancelled, cmSpawned,
                   cmWrites, cmCloses, panicked, cmWaitRets, cmRunCalls,
                   cmRunRets>>
    /\ UNCHANGED <<futureVars, callerVars, waitAllVars, timeoutVars, builderVars>>

\* Wait returns: the parent's (r, err) when that err is not nil, otherwise
\* the stage's slots once cm.done is closed.
StageWaitReturn(s) ==
    /\ Running(s)
    /\ cmWaiting[s]
    /\ WaitReady(s)
    /\ cmWaitRets' = [cmWaitRets EXCEPT ![s] = @ \cup {WaitVal(s)}]
    /\ cmWaiting' = [cmWaiting EXCEPT ![s] = FALSE]
    /\ UNCHANGED <<cmdKind, cmOnce, cmDone, cmResult, cmErr, cmCancelled,
                   cmExec, cmSpawned, cmRuns, cmWrites, cmCloses, panicked,
                   cmRunCalls, cmRunRets>>
    /\ UNCHANGED <<futureVars, callerVars, waitAllVars, timeoutVars, builderVars>>

\* A process started without stdin: execute never wired the parent's buffer.
StdinNil(s) == <<>>

\* What a process of stage s reads from its stdin: nothing when cm.stdin is
\* nil (no parent), otherwise the contents of the parent's stdout buffer,
\* which are the bytes of the parent's result.
Stdin(s) == IF Parent(s) = 0 THEN <<>> ELSE cmResult[Parent(s)].stdout

\* The stdout of stage s when it and every stage upstream of it succeeded.
ChainOut(s) == [a \in 1..s |-> a]

\* An exit code taken from the process state whatever the kind of error.
ExitCodeOfRaw(e, code) == code

\* The exit code execute derives from the error of cmd.Run(): 0 for nil, the
\* process's code for an *exec.ExitError (-1 for a killed process), -1 for
\* any other error.
ExitCodeOf(e, code) == IF e = Nil THEN 0 ELSE IF IsExitError(e) THEN code ELSE -1

\* cm.mu.Lock(); cm.result = r; cm.err = e; cm.mu.Unlock() in the execute
\* call t of stage s, which then stands before its deferred close.
Store(s, t, r, e) ==
    /\ cmResult' = [cmResult EXCEPT ![s] = r]
    /\ cmErr' = [cmErr EXCEPT ![s] = e]
    /\ cmWrites' = [cmWrites EXCEPT ![s] = @ + 1]
    /\ cmExec' = [cmExec EXCEPT ![s][t] = "stored"]

\* An execute that does not look at the error of parent.Wait().
ExecuteBeginNoCheck(s, t) ==
    /\ Running(s)
    /\ cmExec[s][t] = "wait"
    /\ WaitReady(Parent(s))
    /\ IF cmdKind[s] = "missing"
         THEN /\ Store(s, t, Result(ExitCodeOf(NotFound(s), 0), <<>>, <<>>),
                       NotFound(s))
              /\ UNCHANGED cmSpawned
         ELSE IF StageCtxDone(s)
         THEN /\ Store(s, t, Result(ExitCodeOf(Canceled, 0), <<>>, <<>>),
                       Canceled)
              /\ UNCHANGED cmSpawned
         ELSE /\ cmExec' = [cmExec EXCEPT ![s][t] = "proc"]
              /\ cmSpawned' = [cmSpawned EXCEPT ![s] = @ + 1]
              /\ UNCHANGED <<cmResult, cmErr, cmWrites>>
    /\ UNCHANGED <<cmdKind, cmOnce, cmDone, cmCancelled, cmRuns, cmCloses,
                   panicked, cmWaiting, cmWaitRets, cmRunCalls, cmRunRets>>
    /\ UNCHANGED <<futureVars, callerVars, waitAllVars, timeoutVars, builderVars>>

\* execute up to cmd.Run(): parent.Wait() has returned; on its error the
\* stage stores the failed result with that error and runs no command;
\* otherwise it takes the parent's stdout buffer as stdin and calls cmd.Run(),
\* which fails at once when the executable is missing or the context is
\* already done, and spawns the process otherwise.
ExecuteBegin(s, t) ==
    /\ Running(s)
    /\ cmExec[s][t] = "wait"
    /\ WaitReady(Parent(s))
    /\ IF Parent(s) # 0 /\ WaitVal(Parent(s)).err # Nil
         THEN /\ Store(s, t, FailedResult, WaitVal(Parent(s)).err)
              /\ UNCHANGED cmSpawned
         ELSE IF cmdKind[s] = "missing"
         THEN /\ Store(s, t, Result(ExitCodeOf(NotFound(s), 0), <<>>, <<>>),
                       NotFound(s))
              /\ UNCHANGED cmSpawned
         ELSE IF StageCtxDone(s)
         THEN /\ Store(s, t, Result(ExitCodeOf(Canceled, 0), <<>>, <<>>),
                       Canceled)
              /\ UNCHANGED cmSpawned
         ELSE /\ cmExec' = [cmExec EXCEPT ![s][t] = "proc"]
              /\ cmSpawned' = [cmSpawned EXCEPT ![s] = @ + 1]
              /\ UNCHANGED <<cmResult, cmErr, cmWrites>>
    /\ UNCHANGED <<cmdKind, cmOnce, cmDone, cmCancelled, cmRuns, cmCloses,
                   panicked, cmWaiting, cmWaitRets, cmRunCalls, cmRunRets>>
    /\ UNCHANGED <<futureVars, callerVars, waitAllVars, timeoutVars, builderVars>>

\* An execute that keeps a non-zero exit status out of cm.err.
ProcessExitNilErr(s, t) ==
    /\ Running(s)
    /\ cmExec[s][t] = "proc"
    /\ IF cmdKind[s] = "ok"
         THEN Store(s, t, Result(ExitCodeOf(Nil, 0), Out(s, Stdin(s)), <<>>), Nil)
         ELSE Store(s, t, Result(ExitCodeOf(ExitErr(s), 1), <<>>, Diag(s)), Nil)
    /\ UNCHANGED <<cmdKind, cmOnce, cmDone, cmCancelled, cmSpawned, cmRuns,
                   cmCloses, panicked, cmWaiting, cmWaitRets, cmRunCalls,
                   cmRunRets>>
    /\ UNCHANGED <<futureVars, callerVars, waitAllVars, timeoutVars, builderVars>>

\* The process exits on its own and cmd.Run() returns: nil after exit code
\* 0, an *exec.ExitError after exit code 1; execute stores the result built
\* from the normalized exit code and the buffers, and that error.
ProcessExit(s, t) ==
    /\ Running(s)
    /\ cmExec[s][t] = "proc"
    /\ IF cmdKind[s] = "ok"
         THEN Store(s, t, Result(ExitCodeOf(Nil, 0), Out(s, Stdin(s)), <<>>), Nil)
         ELSE Store(s, t, Result(ExitCodeOf(ExitErr(s), 1), <<>>, Diag(s)),
                    ExitErr(s))
    /\ UNCHANGED <<cmdKind, cmOnce, cmDone, cmCancelled, cmSpawned, cmRuns,
                   cmCloses, panicked, cmWaiting, cmWaitRets, cmRunCalls,
                   cmRunRets>>
    /\ UNCHANGED <<futureVars, callerVars, waitAllVars, timeoutVars, builderVars>>

\* An execute that takes the kill of its process for a success.
ProcessKilledNilErr(s, t) ==
    /\ Running(s)
    /\ cmExec[s][t] = "proc"
    /\ StageCtxDone(s)
    /\ Store(s, t, Result(ExitCodeOf(Nil, 0), <<>>, <<>>), Nil)
    /\ UNCHANGED <<cmdKind, cmOnce, cmDone, cmCancelled, cmSpawned, cmRuns,
                   cmCloses, panicked, cmWaiting, cmWaitRets, cmRunCalls,
                   cmRunRets>>
    /\ UNCHANGED <<futureVars, callerVars, waitAllVars, timeoutVars, builderVars>>

\* The context is done while the process runs: exec.CommandContext kills it
\* and cmd.Run() returns an *exec.ExitError whose ExitCode() is -1.
ProcessKilled(s, t) ==
    /\ Running(s)
    /\ cmExec[s][t] = "proc"
    /\ StageCtxDone(s)
    /\ Store(s, t, Result(ExitCodeOf(Killed(s), -1), <<>>, <<>>), Killed(s))
    /\ UNCHANGED <<cmdKind, cmOnce, cmDone, cmCancelled, cmSpawned, cmRuns,
                   cmCloses, panicked, cmWaiting, cmWaitRets, cmRunCalls,
                   cmRunRets>>
    /\ UNCHANGED <<futureVars, callerVars, waitAllVars, timeoutVars, builderVars>>

\* A close(cm.done) written at the end of execute instead of deferred: the
\* return taken when the parent failed skips it.
ExecuteCloseAtEnd(s, t) ==
    /\ Running(s)
    /\ cmExec[s][t] = "stored"
    /\ cmExec' = [cmExec EXCEPT ![s][t] = "end"]
    /\ IF Parent(s) # 0 /\ WaitVal(Parent(s)).err # Nil
         THEN UNCHANGED <<cmCloses, cmDone, panicked>>
         ELSE /\ cmCloses' = [cmCloses EXCEPT ![s] = @ + 1]
              /\ IF cmDone[s]
                   THEN panicked' = TRUE /\ UNCHANGED cmDone
                   ELSE /\ cmDone' = [cmDone EXCEPT ![s] = TRUE]
                        /\ UNCHANGED panicked
    /\ UNCHANGED <<cmdKind, cmOnce, cmResult, cmErr, cmCancelled, cmSpawned,
                   cmRuns, cmWrites, cmWaiting, cmWaitRets, cmRunCalls,
                   cmRunRets>>
    /\ UNCHANGED <<futureVars, callerVars, waitAllVars, timeoutVars, builderVars>>

\* defer close(cm.done): closing the channel a second time panics.
ExecuteClose(s, t) ==
    /\ Running(s)
    /\ cmExec[s][t] = "stored"
    /\ cmExec' = [cmExec EXCEPT ![s][t] = "end"]
    /\ cmCloses' = [cmCloses EXCEPT ![s] = @ + 1]
    /\ IF cmDone[s]
         THEN panicked' = TRUE /\ UNCHANGED cmDone
         ELSE cmDone' = [cmDone EXCEPT ![s] = TRUE] /\ UNCHANGED panicked
    /\ UNCHANGED <<cmdKind, cmOnce, cmResult, cmErr, cmCancelled, cmSpawned,
                   cmRuns, cmWrites, cmWaiting, cmWaitRets, cmRunCalls,
                   cmRunRets>>
    /\ UNCHANGED <<futureVars, callerVars, waitAllVars, timeoutVars, builderVars>>

\* The two execute calls a stage may have.
Threads == {"go", "run"}

\* Any callers: Start, Wait, Run and Cancel on any stage at any time.
InitPipe ==
    /\ InitFutures
    /\ \A f \in AllFutures : fn[f] = [kind |-> "const", val |-> R(f), err |-> Nil]

ExecuteSteps ==
    \/ \E s \in Stages, t \in Threads : ExecuteBegin(s, t)
    \/ \E s \in Stages, t \in Threads : ProcessExit(s, t)
    \/ \E s \in Stages, t \in Threads : ProcessKilled(s, t)
    \/ \E s \in Stages, t \in Threads : ExecuteClose(s, t)

NextPipeAny ==
    \/ \E n \in 1..NumStages : \E k \in Chains(n) : BuildChain(k)
    \/ \E s \in Stages : StageStart(s)
    \/ \E s \in Stages : StageCancel(s)
    \/ \E s \in Stages : StageRunCall(s)
    \/ \E s \in Stages : StageRunReturn(s)
    \/ \E s \in Stages : StageWaitCall(s)
    \/ \E s \in Stages : StageWaitReturn(s)
    \/ ExecuteSteps

SpecPipeAny == InitPipe /\ [][NextPipeAny]_vars

\* Callers that drive a chain either through Start, Wait and Cancel or through
\* one Run call on a stage nothing was called on, after which they call
\* nothing but Cancel on that stage and on the stages downstream of it.
RunAllowed(s) ==
    /\ \A a \in Stages : cmRunCalls[a] = 0
    /\ \A a \in s..NumStages : ~cmOnce[a] /\ ~cmWaiting[a]

AsyncAllowed(s) == \A a \in 1..s : cmRunCalls[a] = 0

NextPipe ==
    \/ \E n \in 1..NumStages : \E k \in Chains(n) : BuildChain(k)
    \/ \E s \in Stages : AsyncAllowed(s) /\ StageStart(s)
    \/ \E s \in Stages : StageCancel(s)
    \/ \E s \in Stages : RunAllowed(s) /\ StageRunCall(s)
    \/ \E s \in Stages : StageRunReturn(s)
    \/ \E s \in Stages : AsyncAllowed(s) /\ StageWaitCall(s)
    \/ \E s \in Stages : StageWaitReturn(s)
    \/ ExecuteSteps

SpecPipe == InitPipe /\ [][NextPipe]_vars

\* One execute call of stage s: the goroutine of Start (t = "go") or the
\* caller's own thread inside Run (t = "run").
ExecuteThread(s, t) ==
    \/ ExecuteBegin(s, t)
    \/ ProcessExit(s, t)
    \/ ProcessKilled(s, t)
    \/ ExecuteClose(s, t)

\* Callers that never call Run: they build a chain and call Start, Wait and
\* Cancel on its stages, in any order and any number of times.
NextPipeAsync ==
    \/ \E n \in 1..NumStages : \E k \in Chains(n) : BuildChain(k)
    \/ \E s \in Stages : StageStart(s)
    \/ \E s \in Stages : StageCancel(s)
    \/ \E s \in Stages : StageWaitCall(s)
    \/ \E s \in Stages : StageWaitReturn(s)
    \/ ExecuteSteps

\* The Go scheduler runs every goroutine that can run, so the execute of a
\* started stage and a Wait call that can take a step take it; that a process
\* at cmd.Run() ends, by itself or killed, is the assumption that every
\* spawned process terminates.  The callers are not bound to call anything.
SpecPipeFair ==
    /\ InitPipe /\ [][NextPipeAsync]_vars
    /\ \A s \in Stages : WF_vars(ExecuteThread(s, "go"))
    /\ \A s \in Stages : WF_vars(StageWaitReturn(s))

\* The owner of the context the head stage was built with cancels it.
RootCancel ==
    /\ ~cmCancelled[0]
    /\ cmCancelled' = [cmCancelled EXCEPT ![0] = TRUE]
    /\ UNCHANGED <<cmdKind, cmOnce, cmDone, cmResult, cmErr, cmExec, cmSpawned,
                   cmRuns, cmWrites, cmCloses, panicked, cmWaiting, cmWaitRets,
                   cmRunCalls, cmRunRets>>
    /\ UNCHANGED <<futureVars, callerVars, waitAllVars, timeoutVars, builderVars>>

\* The callers of NextPipeAsync, with a head stage built with a context that
\* its owner may cancel.
NextPipeScope ==
    \/ NextPipeAsync
    \/ RootCancel

SpecPipeScope == InitPipe /\ [][NextPipeScope]_vars

\* Callers that never call Start or Run: they build a chain, call Wait on
\* its stages and may cancel them.
NextPipeWait ==
    \/ \E n \in 1..NumStages : \E k \in Chains(n) : BuildChain(k)
    \/ \E s \in Stages : StageCancel(s)
    \/ \E s \in Stages : StageWaitCall(s)
    \/ \E s \in Stages : StageWaitReturn(s)
    \/ ExecuteSteps

SpecPipeWait == InitPipe /\ [][NextPipeWait]_vars

\* ------------------------------------------------------- command builders
\* The strings and values the callers pass to the builders.
Flags == {"", "--short"}
OptValues == {5}
ArgValues == {"HEAD"}
SubNames == {"status"}
PipeNames == {"wc"}

\* The structs Opt{Key, Value} and Arg{Value}; an Opt made by OptB has a
\* nil Value.
NilValue == [isNil |-> TRUE, v |-> 0]
AnyOf(v) == [isNil |-> FALSE, v |-> v]
Opt(key, value) == [kind |-> "opt", Key |-> key, Value |-> value]
ArgOf(value) == [kind |-> "arg", Key |-> "", Value |-> AnyOf(value)]

\* fmt.Sprintf("%v", value) of an integer value.
Sprintf(value) == ToString(value.v)

\* Opt.Items.
OptItems(o) ==
    IF ~o.Value.isNil THEN <<o.Key, Sprintf(o.Value)>>
    ELSE IF o.Key = "" THEN <<>>
    ELSE <<o.Key>>

\* Arg.Items.
ArgItems(a) == <<a.Value.v>>

\* component.Items() through the CmdComponent interface.
ComponentItems(c) == IF c.kind = "opt" THEN OptItems(c) ELSE ArgItems(c)

\* The loop of Items over the components, in order.
RECURSIVE ComponentsItems(_)
ComponentsItems(cs) ==
    IF cs = <<>> THEN <<>>
    ELSE ComponentItems(Head(cs)) \o ComponentsItems(Tail(cs))

\* Builder.Items: the command name, then every component's items.
BuilderItems(b) == <<b.Cmd>> \o ComponentsItems(b.components)

\* SubCmd.Items: the parent's items, the subcommand's name, its components.
SubCmdItems(sc, parent) ==
    BuilderItems(parent) \o <<sc.Cmd>> \o ComponentsItems(sc.components)

\* Builder.OptB, Builder.OptV and Builder.Arg on a builder value b.
OptB(b, flag) ==
    IF flag = "" THEN b
    ELSE [b EXCEPT !.components = Append(@, Opt(flag, NilValue))]

OptV(b, flag, value) ==
    IF flag = "" THEN b
    ELSE [b EXCEPT !.components = Append(@, Opt(flag, AnyOf(value)))]

Arg(b, value) == [b EXCEPT !.components = Append(@, ArgOf(value))]

\* The cmdImpl that Builder.Build makes of a list of items: the command is
\* the first item and the arguments are the rest.  from and items record
\* which builder made it and what that builder's Items() was at the time.
CmdImpl(args, from, items) ==
    [cmd |-> Head(args), args |-> Tail(args), parent |-> 0, stdin |-> 0,
     ran |-> FALSE, from |-> from, items |-> items]

\* Builder.Build reads b.Items() of the Builder it is called on.
Build(b, from, items) == CmdImpl(BuilderItems(b), from, items)

\* The Builder embedded in a SubCmd.
Embedded(sc) == [Cmd |-> sc.Cmd, components |-> sc.components]

\* Calls on the Builder returned by New.
BuilderOptB(flag) ==
    /\ Len(builder.components) < MaxComponents
    /\ builder' = OptB(builder, flag)
    /\ UNCHANGED <<subCmd, cmds>>
    /\ UNCHANGED <<futureVars, callerVars, waitAllVars, timeoutVars, stageVars>>

BuilderOptV(flag, value) ==
    /\ Len(builder.components) < MaxComponents
    /\ builder' = OptV(builder, flag, value)
    /\ UNCHANGED <<subCmd, cmds>>
    /\ UNCHANGED <<futureVars, callerVars, waitAllVars, timeoutVars, stageVars>>

BuilderArg(value) ==
    /\ Len(builder.components) < MaxComponents
    /\ builder' = Arg(builder, value)
    /\ UNCHANGED <<subCmd, cmds>>
    /\ UNCHANGED <<futureVars, callerVars, waitAllVars, timeoutVars, stageVars>>

\* Builder.SubCommand: a SubCmd around a fresh Builder{Cmd: name}, whose
\* parent is the builder itself.
SubCommand(name) ==
    /\ subCmd.isNil
    /\ subCmd' = [isNil |-> FALSE, Cmd |-> name, components |-> <<>>]
    /\ UNCHANGED <<builder, cmds>>
    /\ UNCHANGED <<futureVars, callerVars, waitAllVars, timeoutVars, stageVars>>

\* SubCmd.OptB, SubCmd.OptV and SubCmd.Arg call the embedded Builder's.
OnEmbedded(b) == [subCmd EXCEPT !.components = b.components]

SubCmdOptB(flag) ==
    /\ ~subCmd.isNil
    /\ Len(subCmd.components) < MaxComponents
    /\ subCmd' = OnEmbedded(OptB(Embedded(subCmd), flag))
    /\ UNCHANGED <<builder, cmds>>
    /\ UNCHANGED <<futureVars, callerVars, waitAllVars, timeoutVars, stageVars>>

SubCmdOptV(flag, value) ==
    /\ ~subCmd.isNil
    /\ Len(subCmd.components) < MaxComponents
    /\ subCmd' = OnEmbedded(OptV(Embedded(subCmd), flag, value))
    /\ UNCHANGED <<builder, cmds>>
    /\ UNCHANGED <<futureVars, callerVars, waitAllVars, timeoutVars, stageVars>>

SubCmdArg(value) ==
    /\ ~subCmd.isNil
    /\ Len(subCmd.components) < MaxComponents
    /\ subCmd' = OnEmbedded(Arg(Embedded(subCmd), value))
    /\ UNCHANGED <<builder, cmds>>
    /\ UNCHANGED <<futureVars, callerVars, waitAllVars, timeoutVars, stageVars>>

\* builder.Build(ctx).
BuilderBuild ==
    /\ cmds = <<>>
    /\ cmds' = <<Build(builder, "Builder", BuilderItems(builder))>>
    /\ UNCHANGED <<builder, subCmd>>
    /\ UNCHANGED <<futureVars, callerVars, waitAllVars, timeoutVars, stageVars>>

\* subCmd.Build(ctx).  SubCmd declares no Build: the call is the embedded
\* Builder's Build, with the embedded Builder as its receiver.
SubCmdBuild ==
    /\ ~subCmd.isNil
    /\ cmds = <<>>
    /\ cmds' = <<Build(Embedded(subCmd), "SubCmd",
                       SubCmdItems(subCmd, builder))>>
    /\ UNCHANGED <<builder, subCmd>>
    /\ UNCHANGED <<futureVars, callerVars, waitAllVars, timeoutVars, stageVars>>

\* A Pipe that starts the upstream command it is called on.
PipeBuildStarts(from, name) ==
    /\ from \in DOMAIN cmds
    /\ Len(cmds) < MaxCmds
    /\ LET b == [Cmd |-> name, components |-> <<>>]
       IN cmds' = Append([cmds EXCEPT ![from].ran = TRUE],
              [Build(b, "Pipe", BuilderItems(b)) EXCEPT !.parent = from])
    /\ UNCHANGED <<builder, subCmd>>
    /\ UNCHANGED <<futureVars, callerVars, waitAllVars, timeoutVars, stageVars>>

\* cm.Pipe(name).Build() on the built command number from: a command made
\* by New(name), with from as its parent.
PipeBuild(from, name) ==
    /\ from \in DOMAIN cmds
    /\ Len(cmds) < MaxCmds
    /\ LET b == [Cmd |-> name, components |-> <<>>]
       IN cmds' = Append(cmds,
              [Build(b, "Pipe", BuilderItems(b)) EXCEPT !.parent = from])
    /\ UNCHANGED <<builder, subCmd>>
    /\ UNCHANGED <<futureVars, callerVars, waitAllVars, timeoutVars, stageVars>>

\* execute of the built command number i, its parent having completed
\* without error: stdin becomes the parent's stdout buffer.
CmdExecute(i) ==
    /\ i \in DOMAIN cmds
    /\ ~cmds[i].ran
    /\ cmds[i].parent # 0 => cmds[cmds[i].parent].ran
    /\ cmds' = [cmds EXCEPT ![i].ran = TRUE, ![i].stdin = cmds[i].parent]
    /\ UNCHANGED <<builder, subCmd>>
    /\ UNCHANGED <<futureVars, callerVars, waitAllVars, timeoutVars, stageVars>>

NextBuilder ==
    \/ \E flag \in Flags : BuilderOptB(flag) \/ SubCmdOptB(flag)
    \/ \E flag \in Flags, value \in OptValues :
           BuilderOptV(flag, value) \/ SubCmdOptV(flag, value)
    \/ \E value \in ArgValues : BuilderArg(value) \/ SubCmdArg(value)
    \/ \E name \in SubNames : SubCommand(name)
    \/ BuilderBuild
    \/ SubCmdBuild
    \/ \E from \in 1..MaxCmds, name \in PipeNames : PipeBuild(from, name)
    \/ \E i \in 1..MaxCmds : CmdExecute(i)

SpecBuilder == InitPipe /\ [][NextBuilder]_vars

\* ------------------------------------------------------------- claims
\* C1: whatever the number N >= 1 of Start calls made on a future, in any
\* interleaving with its execution and with the other calls, the task body is
\* entered exactly once, and every Start call returned the handle it was
\* called on.
C1_StartOnce ==
    \A f \in AllFutures :
        /\ startCalls[f] >= 1 => runs[f] = 1 /\ once[f]
        /\ startRet[f] = IF startCalls[f] >= 1 THEN {f} ELSE {}

\* Start was called at least twice on a future that ran to completion.
C1_Witness ==
    \E f \in Probes : startCalls[f] = 2 /\ pc[f] = "closed" /\ runs[f] = 1

\* C2: the slots are written at most once; whenever the completion signal
\* has fired they were written exactly once and hold the values the body
\* returned; and a step taken after the signal fired never changes them.
C2_SlotsInv ==
    \A f \in AllFutures :
        /\ writes[f] <= 1
        /\ done[f] => /\ writes[f] = 1
                      /\ pc[f] = "closed"
                      /\ <<res[f], err[f]>> = local[f]

C2_PublishThenSignal ==
    /\ []C2_SlotsInv
    /\ [][\A f \in AllFutures :
            done[f] => res'[f] = res[f] /\ err'[f] = err[f]]_vars

\* The signal has fired on a future whose body returned a non-nil error, and
\* a Wait call has read the slots.
C2_Witness ==
    \E f \in Probes :
        done[f] /\ writes[f] = 1 /\ err[f] = E(f) /\ res[f] = R(f)
                /\ waitCount[f] >= 1

\* C3: all the Wait calls that returned on one future returned the same
\* (result, error) pair.
C3_WaitIdentical ==
    \A f \in AllFutures : Cardinality(waitRets[f]) <= 1

\* Two or more Wait calls returned on the same future.
C3_Witness ==
    \E f \in Probes : waitCount[f] = 2 /\ Cardinality(waitRets[f]) = 1

\* C4: a Wait call returns the pair the task body returned; a body that
\* ignores its context gets its own result and error back verbatim, also when
\* the future was cancelled.
C4_WaitVerbatim ==
    \A f \in AllFutures : \A p \in waitRets[f] :
        /\ p = local[f]
        /\ fn[f].kind = "const" => p = <<fn[f].val, fn[f].err>>

\* Wait returned the body's own result and error on a future that was
\* cancelled before its body completed.
C4_Witness ==
    \E f \in Probes :
        /\ fn[f].kind = "const"
        /\ cancelledEarly[f] /\ cancelled[f]
        /\ waitRets[f] = {<<R(f), E(f)>>}

\* C5: as long as Start was never called on a future, no execute goroutine
\* exists, the body was never entered, the signal has not fired, IsDone is
\* false and never returned true, no Wait call returned and none can return.
C5_NoImplicitStart ==
    \A f \in AllFutures :
        startCalls[f] = 0 =>
            /\ pc[f] = "none" /\ runs[f] = 0 /\ ~once[f]
            /\ ~done[f] /\ ~IsDone(f) /\ ~seenDone[f]
            /\ waitRets[f] = {} /\ waitCount[f] = 0
            /\ ~ENABLED WaitReturn(f)

\* A Wait call is blocked on a future that was cancelled, whose parent
\* context was cancelled, and that was never started.
C5_Witness ==
    \E f \in Probes :
        startCalls[f] = 0 /\ waiters[f] >= 1 /\ cancelled[f] /\ parentDone

\* C6: when the scope of a started future was cancelled (by Cancel or through
\* the parent context) before its body completed, and the body observes its
\* context, then the body returned, the slots hold and every Wait call
\* returned the zero result and context.Canceled.
C6_CancelObserved ==
    \A f \in AllFutures :
        (fn[f].kind = "observe" /\ cancelledEarly[f]) =>
            /\ pc[f] \in {"ret", "stored", "closed"}
                  => local[f] = <<Zero, Canceled>>
            /\ pc[f] \in {"stored", "closed"}
                  => <<res[f], err[f]>> = <<Zero, Canceled>>
            /\ waitRets[f] \subseteq {<<Zero, Canceled>>}

\* Wait returned the cancellation error on a future cancelled by Cancel alone.
C6_Witness ==
    \E f \in Probes :
        /\ fn[f].kind = "observe" /\ cancelledEarly[f]
        /\ cancelled[f] /\ ~parentDone
        /\ waitRets[f] = {<<Zero, Canceled>>}

\* C7: the completion signal is fired at most once and, once fired, stays
\* fired: no step resets it, and after a Wait call returned or an IsDone call
\* returned true, IsDone is true.
C7_SignalInv ==
    \A f \in AllFutures :
        /\ closes[f] <= 1
        /\ done[f] <=> closes[f] = 1
        /\ (seenDone[f] \/ waitCount[f] >= 1) => IsDone(f)

C7_SignalStaysFired ==
    /\ []C7_SignalInv
    /\ [][\A f \in AllFutures : done[f] => done'[f]]_vars

\* IsDone returned true, Wait returned, and Cancel and a second Start
\* followed the completion.
C7_Witness ==
    \E f \in Probes :
        seenDone[f] /\ waitCount[f] >= 1 /\ cancelledLate[f]
                    /\ startCalls[f] = 2

\* C8: Cancel is enabled in every state (it never blocks), and a Cancel call
\* made after the completion signal fired changes neither slot nor the signal.
C8_CancelNoOpAfterDone ==
    /\ [](\A f \in AllFutures : ENABLED CancelCall(f))
    /\ [][\A f \in AllFutures :
            (done[f] /\ CancelCall(f)) =>
                /\ res'[f] = res[f] /\ err'[f] = err[f]
                /\ done'[f] = done[f] /\ closes' = closes
                /\ pc' = pc /\ writes' = writes]_vars

\* Cancel was called before the body completed and again after completion,
\* and the slots hold the body's values.
C8_Witness ==
    \E f \in Probes :
        /\ cancelledEarly[f] /\ cancelledLate[f] /\ done[f]
        /\ <<res[f], err[f]>> = local[f]
        /\ err[f] = E(f)

\* The positions of the input list whose future has completed with an error.
Failing == { i \in 1..Len(waFus) : done[waFus[i]] /\ err[waFus[i]] # Nil }

FirstFailing == CHOOSE i \in Failing : \A j \in Failing : i <= j

\* C9: when WaitAll has returned and its scope is not cancelled, and some
\* future of the list has failed, then WaitAll returned (nil, e) with e the
\* error of the first failing future in input order, it returned at that
\* position of the list (it examined no later future), and all the futures
\* before it had completed without error.
C9_FailFast ==
    (waPc = "returned" /\ ~scopeDone /\ Failing # {}) =>
        /\ waRet = RetErr(err[waFus[FirstFailing]])
        /\ waI = FirstFailing
        /\ \A j \in 1..(FirstFailing - 1) :
              done[waFus[j]] /\ err[waFus[j]] = Nil

\* WaitAll returned the error of a future while the next future of the list
\* was still running its body.
C9_Witness ==
    /\ waPc = "returned" /\ ~scopeDone
    /\ \E k \in 1..(Len(waFus) - 1) :
          /\ waI = k
          /\ waRet = RetErr(E(waFus[k]))
          /\ pc[waFus[k + 1]] = "fn"

\* C10: when WaitAll has returned, its scope is not cancelled and every
\* future of the list has completed with a nil error, then WaitAll returned a
\* nil error and a non-nil sequence as long as the list whose i-th element is
\* the result slot of the i-th future, i.e. what that future's body returned.
C10_OrderedResults ==
    (/\ waPc = "returned" /\ ~scopeDone
     /\ \A i \in 1..Len(waFus) : done[waFus[i]] /\ err[waFus[i]] = Nil) =>
        /\ waRet.isSet /\ ~waRet.isNil /\ waRet.err = Nil
        /\ Len(waRet.items) = Len(waFus)
        /\ \A i \in 1..Len(waFus) :
              /\ waRet.items[i] = res[waFus[i]]
              /\ waRet.items[i] = R(waFus[i])

\* WaitAll returned the results of all the futures in input order although a
\* later future of the list had completed before an earlier one was received.
C10_Witness ==
    /\ waPc = "returned" /\ ~scopeDone
    /\ Len(waFus) = NumFutures
    /\ waOutOfOrder
    /\ waRet = RetOk([i \in 1..Len(waFus) |-> R(waFus[i])])
    /\ waFus[1] # 1

C12_CancelsAllOnFailure ==
    (waPc = "returned" /\ waRet.isNil) =>
        /\ waCancels = { waFus[j] : j \in 1..Len(waFus) }
        /\ \A f \in waCancels : cancelled[f]

\* C13: a WaitAll call on an empty list never selects: whether or not its
\* scope is cancelled, the only step it can take is the return after the range
\* loop, it never enters the cancelling branch, and what it returns is an
\* empty non-nil sequence with a nil error.
C13_EmptyList ==
    (waPc # "idle" /\ Len(waFus) = 0) =>
        /\ waPc \in {"select", "returned"}
        /\ waCancels = {}
        /\ waPc = "select" =>
              /\ ENABLED WaitAllReturnAll
              /\ ~ENABLED WaitAllRecv
              /\ ~ENABLED WaitAllCtxDone
        /\ waPc = "returned" => waRet = RetOk(<<>>)

\* WaitAll on an empty list returned (empty, nil) with its scope cancelled and
\* no future ever started.
C13_Witness ==
    /\ waPc = "returned"
    /\ Len(waFus) = 0
    /\ scopeDone
    /\ waRet = RetOk(<<>>)
    /\ \A f \in Futures : pc[f] = "none"

\* C14: when WaitTimeout's select found the deadline passed and the future's
\* completion signal not fired, WaitTimeout called Cancel on the future (once,
\* so its scope is cancelled) and returned the zero value together with
\* context.DeadlineExceeded; it does so whatever the position of the task body.
C14_TimeoutCancels ==
    (wtPc = "returned" /\ wtSaw.expired /\ ~wtSaw.done) =>
        /\ wtCancels = 1
        /\ cancelled[wtFu]
        /\ wtRet = Pair(Zero, DeadlineExceeded)

\* WaitTimeout returned the deadline error while the body of the started
\* future, which returns a result and no error, had not returned.
C14_Witness ==
    /\ wtPc = "returned"
    /\ wtSaw.expired /\ ~wtSaw.done
    /\ pc[wtFu] = "fn"
    /\ fn[wtFu].kind = "const" /\ fn[wtFu].err = Nil
    /\ wtRet = Pair(Zero, DeadlineExceeded)
    /\ cancelled[wtFu]

\* C15: when WaitTimeout's select found the future's completion signal fired
\* and the deadline not passed, WaitTimeout returned the pair held by the
\* future's slots, which is what the body returned, and called Cancel on the
\* future not once.
C15_CompletedFirst ==
    (wtPc = "returned" /\ wtSaw.done /\ ~wtSaw.expired) =>
        /\ wtRet = Pair(res[wtFu], err[wtFu])
        /\ wtRet = Pair(local[wtFu][1], local[wtFu][2])
        /\ wtCancels = 0

\* WaitTimeout returned the result and the error of a failing body before the
\* deadline, and nobody has cancelled the future.
C15_Witness ==
    /\ wtPc = "returned"
    /\ wtSaw.done /\ ~wtSaw.expired
    /\ wtRet = Pair(R(wtFu), E(wtFu))
    /\ wtCancels = 0
    /\ ~cancelled[wtFu]

\* C16: for every stage, under any calls of Start, Wait and Run, execute is
\* entered at most once, the result/error slots are written at most once and
\* close(cm.done) runs at most once.
C16_AtMostOnce ==
    \A s \in Stages : cmRuns[s] <= 1 /\ cmWrites[s] <= 1 /\ cmCloses[s] <= 1

\* C17: under any calls of Start, Wait, Run and Cancel on the stages of a
\* chain, while an external process of a stage runs, reading its stdin from
\* the stdout buffer of the parent stage, no process of the parent stage
\* runs, writing that buffer.
C17_NoWriterWhileRead ==
    \A s \in Stages : \A t, u \in Threads :
        (Parent(s) # 0 /\ cmExec[s][t] = "proc") => cmExec[Parent(s)][u] # "proc"

\* C18: when Wait on a stage can return a non-nil error, then whatever the
\* length of the chain no stage downstream of it has spawned an external
\* process, every Wait call that returned on a downstream stage returned that
\* same error value, and so does the error slot of every downstream stage
\* that has completed.
C18_FailurePropagates ==
    \A s \in Stages : \A d \in (s + 1)..NumStages :
        (WaitReady(s) /\ WaitVal(s).err # Nil) =>
            /\ cmSpawned[d] = 0
            /\ \A r \in cmWaitRets[d] : r.err = WaitVal(s).err
            /\ cmDone[d] => cmErr[d] = WaitVal(s).err

\* The process of stage 1 exited with code 1; the last stage of a full chain,
\* whose command would succeed, has completed without spawning a process and
\* Wait on it returned the exit error of stage 1.
C18_Witness ==
    /\ cmdKind[NumStages] = "ok"
    /\ cmSpawned[1] = 1
    /\ cmDone[1] /\ cmErr[1] = ExitErr(1)
    /\ cmDone[NumStages] /\ cmSpawned[NumStages] = 0
    /\ \E r \in cmWaitRets[NumStages] : r.err = ExitErr(1)

\* C19: every Wait call that returned on a stage whose upstream failed
\* returned the failed result the stage built for itself (exit code -1, empty
\* stdout and stderr) together with the upstream's error.
C19_WaitSyntheticResult ==
    \A d \in Stages :
        (Parent(d) # 0 /\ WaitReady(Parent(d)) /\ WaitVal(Parent(d)).err # Nil) =>
            \A r \in cmWaitRets[d] :
                /\ r.result = FailedResult
                /\ r.err = WaitVal(Parent(d)).err

\* The pairs returned so far by the Wait and Run calls on stage s.
Returned(s) == cmWaitRets[s] \cup cmRunRets[s]

\* C20 as stated: every Wait or Run call that returned a result carrying a
\* non-zero exit code of the process returned a nil error.
C20_NilErrorOnExitCode ==
    \A s \in Stages : \A r \in Returned(s) :
        r.result.exitCode > 0 => r.err = Nil

\* C20, amended: a stage whose process exited with a non-zero code stores the
\* *exec.ExitError of cmd.Run() in its error slot next to the result carrying
\* that code, so that the slots hold a nil error exactly when they hold exit
\* code 0, and every Wait or Run call that returned a result with a non-zero
\* exit code of a process returned the non-nil exit error of that process.
C20_ExitErrorReported ==
    \A s \in Stages :
        /\ ~cmResult[s].isNil =>
              /\ (cmErr[s] = Nil) <=> (cmResult[s].exitCode = 0)
              /\ cmResult[s].exitCode > 0 => cmErr[s] = ExitErr(s)
        /\ \A r \in Returned(s) :
              r.result.exitCode > 0 =>
                  \E a \in 1..s : /\ r.err = ExitErr(a)
                                  /\ r.result = Result(1, <<>>, Diag(a))

\* Wait on a stage returned the result with exit code 1 and the exit error
\* of the stage's own process, which ran to its end without being cancelled.
C20_Witness ==
    \E s \in Stages :
        /\ cmSpawned[s] = 1 /\ ~StageCtxDone(s)
        /\ [result |-> Result(1, <<>>, Diag(s)), err |-> ExitErr(s)]
               \in cmWaitRets[s]

\* C21: every Run call that returned on a stage whose command exits with a
\* non-zero code and whose process was spawned returned a non-nil error
\* together with a result, not nil, whose exit code is not 0.
C21_RunReportsFailure ==
    \A s \in Stages : \A r \in cmRunRets[s] :
        (cmdKind[s] = "exit" /\ cmSpawned[s] > 0) =>
            /\ r.err # Nil
            /\ ~r.result.isNil
            /\ r.result.exitCode # 0

\* Run on a stage without parent, never cancelled, returned exit code 1 and
\* the exit error of the stage's process, as in TestCmdRunWithError.
C21_Witness ==
    /\ cmdKind[1] = "exit"
    /\ ~StageCtxDone(1)
    /\ cmRunRets[1] = {[result |-> Result(1, <<>>, Diag(1)), err |-> ExitErr(1)]}

\* C22: on a stage that has completed, what a Wait call that followed Start
\* returned is what Run returns for the same execution, namely the result
\* (exit code, stdout, stderr) and the error execute stored, also for a piped
\* stage and for a stage whose upstream failed.
C22_RunEqualsStartWait ==
    \A s \in Stages :
        cmDone[s] =>
            \A r \in Returned(s) : r = [result |-> cmResult[s], err |-> cmErr[s]]

\* C23: in every state the fired start-latches of a chain are those of its
\* first stages (a stage's latch has fired only if the latch of every stage
\* upstream of it has), a stage whose latch has fired has had its execute
\* goroutine scheduled and execute was entered once for it; and in every step
\* a fired latch stays fired and the stage's execution is not scheduled
\* again, whatever Start calls are made on any stage.
C23_StartHeadToTail ==
    /\ [](\A s \in Stages :
              cmOnce[s] => /\ \A a \in Ancestors(s) : cmOnce[a]
                           /\ cmExec[s].go # "idle"
                           /\ cmRuns[s] = 1)
    /\ [][\A s \in Stages :
              cmOnce[s] => /\ cmOnce'[s]
                           /\ cmRuns'[s] = cmRuns[s]
                           /\ cmExec'[s].go # "wait" \/ cmExec[s].go = "wait"]_vars

\* Only Start was called (no Wait and no Run call was made): the latch of
\* the last stage of a full chain has fired, so has every other, and every
\* stage but the last, still waiting for its parent, has completed.
C23_Witness ==
    /\ cmdKind[NumStages] # Unbuilt
    /\ \A s \in Stages : ~cmWaiting[s] /\ cmWaitRets[s] = {} /\ cmRunCalls[s] = 0
    /\ \A s \in Stages : cmOnce[s] /\ cmRuns[s] = 1
    /\ \A s \in Ancestors(NumStages) : cmDone[s]
    /\ cmExec[NumStages].go = "wait"

\* C24: with callers that never call Start, while a Wait call on a stage has
\* not returned the stage and every stage upstream of it have been started
\* (latch fired, execute goroutine scheduled), and the call is not stuck:
\* either it can return, or the execute goroutine of the stage or of a stage
\* upstream of it can take its next step.
C24_WaitStarts ==
    \A s \in Stages :
        cmWaiting[s] =>
            /\ \A a \in 1..s : cmOnce[a] /\ cmExec[a].go # "idle"
            /\ WaitReady(s) => ENABLED StageWaitReturn(s)
            /\ ~WaitReady(s) =>
                  \E a \in 1..s : \/ ENABLED ExecuteBegin(a, "go")
                                  \/ ENABLED ProcessExit(a, "go")
                                  \/ ENABLED ExecuteClose(a, "go")

\* Wait on the last stage of a full chain of succeeding commands, on which
\* nobody called Start, returned the stage's own result with a nil error.
C24_Witness ==
    /\ cmdKind[NumStages] = "ok"
    /\ ~cmWaiting[NumStages]
    /\ cmWaitRets[NumStages] =
          {[result |-> Result(0, ChainOut(NumStages), <<>>), err |-> Nil]}
    /\ \A s \in Stages : cmOnce[s] /\ cmDone[s]

\* C25: in every state Cancel can be called on every stage of the chain, and
\* the cancelled scopes are those of the first stages of the chain (a stage's
\* cancel was invoked only if the cancel of every stage upstream of it was);
\* in every step a cancelled scope stays cancelled, and the result slot, the
\* error slot and the completion signal of a completed stage are left as they
\* are, whatever Cancel calls are made.
C25_CancelUpstreamFirst ==
    /\ [](\A s \in Stages :
              /\ cmdKind[s] # Unbuilt => ENABLED StageCancel(s)
              /\ cmCancelled[s] => \A a \in Ancestors(s) : cmCancelled[a])
    /\ [][\A s \in Stages :
              /\ cmCancelled[s] => cmCancelled'[s]
              /\ cmDone[s] => /\ cmDone'[s]
                              /\ cmResult'[s] = cmResult[s]
                              /\ cmErr'[s] = cmErr[s]]_vars

\* Every stage of a full chain is cancelled and holds the result of a
\* process that succeeded, with a nil error.
C25_Witness ==
    /\ cmdKind[NumStages] # Unbuilt
    /\ \A s \in Stages :
          /\ cmCancelled[s]
          /\ cmDone[s]
          /\ cmResult[s] = Result(0, ChainOut(s), <<>>)
          /\ cmErr[s] = Nil

\* C27: a stage with a parent has spawned a process only if the parent has
\* completed with a nil error; when that process succeeded, the stdout of the
\* stage's result is what the process wrote after reading exactly the bytes
\* of the parent's stdout, and every Wait call on the stage that returned a
\* nil error returned the stage's own result, with exit code 0 like the
\* parent's.
C27_PipeDataFlow ==
    \A s \in Stages :
        (Parent(s) # 0 /\ cmSpawned[s] > 0) =>
            /\ cmDone[Parent(s)] /\ cmErr[Parent(s)] = Nil
            /\ cmResult[Parent(s)].exitCode = 0
            /\ (~cmResult[s].isNil /\ cmErr[s] = Nil) =>
                  cmResult[s].stdout = Out(s, cmResult[Parent(s)].stdout)
            /\ \A r \in cmWaitRets[s] :
                  r.err = Nil =>
                      /\ r.result = cmResult[s]
                      /\ r.result.exitCode = 0
                      /\ r.result.stdout = Out(s, cmResult[Parent(s)].stdout)

\* Wait on stage 2 returned exit code 0 and the bytes of stage 1 followed by
\* its own, stage 1 holding exit code 0 and its own bytes, as in
\* TestPipeBuilder.
C27_Witness ==
    /\ cmResult[1] = Result(0, <<1>>, <<>>)
    /\ cmErr[1] = Nil
    /\ cmSpawned[2] = 1
    /\ cmWaitRets[2] = {[result |-> Result(0, <<1, 2>>, <<>>), err |-> Nil]}

\* C29: when the execution of a started stage whose scope is cancelled ends
\* before its process has completed (cmd.Run() finds the context done, or the
\* running process is killed, rather than exiting on its own), it stores a
\* non-nil error; and every Wait call that returned on a completed stage
\* holding a non-nil error returned a non-nil error.
C29_CancelledStageFails ==
    /\ [][\A s \in Stages :
              (/\ cmOnce[s] /\ StageCtxDone(s)
               /\ cmExec[s].go \in {"wait", "proc"}
               /\ cmExec'[s].go = "stored"
               /\ ~ProcessExit(s, "go")) => cmErr'[s] # Nil]_vars
    /\ [](\A s \in Stages : \A r \in cmWaitRets[s] :
              (cmDone[s] /\ cmErr[s] # Nil) => r.err # Nil)

\* Start, Cancel, Wait on a stage without parent whose command would
\* succeed: its process was spawned and killed, and Wait returned the kill
\* error with exit code -1, as in TestCmdBuilderCancel.
C29_Witness ==
    /\ cmdKind[1] = "ok"
    /\ cmOnce[1] /\ cmCancelled[1]
    /\ cmSpawned[1] = 1
    /\ cmWaitRets[1] = {[result |-> Result(-1, <<>>, <<>>), err |-> Killed(1)]}

\* C30: the result a stage stored with an outcome of its own cmd.Run() (nil,
\* or an error of this stage's launcher, not an error taken from upstream)
\* has exit code 0 and the bytes the process wrote when the error is nil,
\* the process's own exit code (1, or -1 for a killed process) when the
\* error is an exit error, and the sentinel -1 with empty buffers for every
\* other error.
C30_ExitCodeFunction ==
    \A s \in Stages :
        (/\ ~cmResult[s].isNil
         /\ cmErr[s] \in {Nil, ExitErr(s), Killed(s), NotFound(s), Canceled}) =>
            /\ cmErr[s] = Nil =>
                  cmResult[s] = Result(0, Out(s, Stdin(s)), <<>>)
            /\ cmErr[s] = ExitErr(s) => cmResult[s] = Result(1, <<>>, Diag(s))
            /\ cmErr[s] = Killed(s) => cmResult[s].exitCode = -1
            /\ (cmErr[s] # Nil /\ ~IsExitError(cmErr[s])) =>
                  cmResult[s] = Result(-1, <<>>, <<>>)

\* Stage 1 holds exit code 0 with a nil error and stage 2, whose executable
\* is missing, holds the sentinel -1 with the launcher's error and has spawned
\* no process.
C30_Witness ==
    /\ cmResult[1] = Result(0, <<1>>, <<>>) /\ cmErr[1] = Nil
    /\ cmResult[2] = Result(-1, <<>>, <<>>) /\ cmErr[2] = NotFound(2)
    /\ cmSpawned[2] = 0

\* C26: read access to a stage's captured stdout buffer is handed to at most
\* one downstream consumer: no two commands have the same upstream command's
\* buffer wired as their input.
C26_SingleConsumer ==
    \A i, j \in DOMAIN cmds :
        (i # j /\ cmds[i].stdin # 0) => cmds[i].stdin # cmds[j].stdin

\* C28: a Cmd built from a SubCmd has the command name and the argument
\* list of SubCmd.Items(): the parent command, with the subcommand as part
\* of its arguments.
C28_SubCmdBuildsItems ==
    \A i \in DOMAIN cmds :
        cmds[i].from = "SubCmd" =>
            <<cmds[i].cmd>> \o cmds[i].args = cmds[i].items

\* C31: Pipe and PipeBuilder.Build perform no execution.  The step that adds
\* a piped command leaves every command built before it as it was (started
\* or not, input, name and arguments), leaves the builders alone, and the
\* new command is not started, has no input wired yet and holds a reference
\* to an existing upstream command.
C31_PipeNoExecution ==
    [][(cmds # <<>> /\ Len(cmds') = Len(cmds) + 1) =>
          /\ SubSeq(cmds', 1, Len(cmds)) = cmds
          /\ ~cmds'[Len(cmds')].ran
          /\ cmds'[Len(cmds')].stdin = 0
          /\ cmds'[Len(cmds')].parent \in DOMAIN cmds
          /\ UNCHANGED <<builder, subCmd, stageVars>>]_vars

\* A command piped from command 1 exists and has not run, while command 1
\* has run.
C31_Witness ==
    /\ Len(cmds) >= 2
    /\ cmds[2].parent = 1 /\ ~cmds[2].ran /\ cmds[2].stdin = 0
    /\ cmds[1].ran

\* C32: once the scope given to a running WaitAll is cancelled, WaitAll
\* eventually returns, also when some input futures never complete or were
\* never started.
C32_ScopeBoundsWaitAll ==
    (scopeDone /\ waPc \in {"select", "cancel"}) ~> (waPc = "returned")

\* WaitAll returned the scope's error for a list that holds a future that
\* was never started and whose signal never fired.
C32_Witness ==
    /\ scopeDone
    /\ waPc = "returned" /\ waRet = RetErr(Canceled)
    /\ \E j \in 1..Len(waFus) : ~once[waFus[j]] /\ ~done[waFus[j]]

\* C33: if every spawned process terminates, then once a stage was started
\* (by Start or by Wait, on it or on a stage downstream of it) that stage and
\* every stage upstream of it eventually have their completion signal fired,
\* and every Wait call eventually returns, whatever Start, Wait and Cancel
\* calls are made meanwhile.
C33_ChainTerminates ==
    \A s \in Stages :
        /\ cmOnce[s] ~> (\A a \in 1..s : cmDone[a])
        /\ cmWaiting[s] ~> ~cmWaiting[s]

\* Every stage of a chain of two is done and a Wait call on each returned,
\* stage 1 having been cancelled.
C33_Witness ==
    /\ cmdKind[2] # Unbuilt
    /\ \A s \in 1..2 : cmOnce[s] /\ cmDone[s] /\ cmWaitRets[s] # {}
    /\ cmCancelled[1]

\* C34: when a Wait call on a stage has returned, the stage is terminal: its
\* completion signal has fired, so that IsDone is true and the stored result
\* and error are the final ones, also when Wait returned because the
\* upstream reported an error.
C34_WaitReturnedTerminal ==
    \A s \in Stages : cmWaitRets[s] # {} => cmDone[s]

\* C35: the scope of a stage is derived from the scope of its upstream stage,
\* and the head's from the context it was built with.  In every state, when
\* the cancel of a stage was invoked or the head's context was cancelled, the
\* scope of every stage downstream is done; in every step, a Cancel call on
\* any stage leaves the scope of every stage of the chain done, and no stage
\* spawns a process once its own scope, the scope of a stage upstream of it
\* or the head's context was cancelled.
C35_ScopeDerived ==
    /\ [](\A s \in Stages : \A a \in 0..s :
              (cmdKind[s] # Unbuilt /\ cmCancelled[a]) => StageCtxDone(s))
    /\ [][\A s \in Stages :
              /\ (cmCancelled'[s] /\ ~cmCancelled[s]) =>
                    \A d \in Stages : cmdKind[d] # Unbuilt => StageCtxDone(d)'
              /\ cmSpawned'[s] > cmSpawned[s] =>
                    \A a \in 0..s : ~cmCancelled[a]]_vars

\* Stage 1 succeeded and was then cancelled alone; stage 2, never cancelled
\* itself, found its context done and failed with the context's error
\* without spawning a process.
C35_Witness ==
    /\ cmCancelled[1] /\ ~cmCancelled[2] /\ ~cmCancelled[0]
    /\ cmErr[1] = Nil /\ cmDone[1]
    /\ cmErr[2] = Canceled /\ cmSpawned[2] = 0 /\ cmDone[2]

\* C36: Cancel before Start neither prevents nor skips the execution.  A
\* future that was not started is not terminal, cancelled or not; a Cancel
\* call moves nothing but the scope, which stays cancelled; the Start that
\* follows a Cancel enters the task body, for the first and only time; a body
\* that looks at its context then finds it cancelled; and the completion
\* signal fires only in the step that follows the store of what the body
\* returned.
C36_CancelBeforeStart ==
    /\ [](\A f \in AllFutures :
              /\ ~once[f] => (~done[f] /\ pc[f] = "none" /\ runs[f] = 0)
              /\ runs[f] <= 1
              /\ done[f] => (pc[f] = "closed" /\ <<res[f], err[f]>> = local[f]))
    /\ [][\A f \in AllFutures :
              /\ cancelled[f] => cancelled'[f]
              /\ (~cancelled[f] /\ cancelled'[f]) =>
                    (done'[f] = done[f] /\ pc'[f] = pc[f] /\ once'[f] = once[f])
              /\ (cancelled[f] /\ ~once[f] /\ once'[f]) =>
                    (pc'[f] = "fn" /\ runs'[f] = 1 /\ ~done'[f])
              /\ (cancelled[f] /\ pc[f] = "fn" /\ pc'[f] = "ret"
                    /\ fn[f].kind = "observe") =>
                    local'[f] = <<Zero, Canceled>>
              /\ (~done[f] /\ done'[f]) => pc[f] = "stored"]_vars

\* A cancelled future whose body ran once, found its context cancelled and
\* returned the context's error, and whose signal has fired.
C36_Witness ==
    \E f \in Probes :
        /\ cancelled[f] /\ ~parentDone /\ ~cancelledLate[f]
        /\ fn[f].kind = "observe"
        /\ runs[f] = 1 /\ done[f]
        /\ <<res[f], err[f]>> = <<Zero, Canceled>>

\* The positions of the list given to WaitAll whose future was never started.
Unstarted == { j \in 1..Len(waFus) : startCalls[waFus[j]] = 0 }

\* C37 as stated: WaitAll and WaitTimeout never start a future, and a WaitAll
\* call given a future that was never started returns only when its scope is
\* cancelled.
C37_ReturnsOnlyOnScope ==
    /\ \A f \in AllFutures : startCalls[f] = 0 => ~once[f]
    /\ (waPc = "returned" /\ Unstarted # {}) => scopeDone

\* C37, amended: WaitAll and WaitTimeout never start a future: a future on
\* which its owner never called Start has no execute goroutine and its signal
\* has not fired.  A WaitAll call on a list that holds such a future returns
\* no results: it returns either through the cancellation of its scope or
\* with the error of a completed future that stands before every unstarted
\* one in the list.  A WaitTimeout call on such a future returns only at its
\* deadline, with the deadline's error.
C37_NoImplicitStart ==
    /\ \A f \in AllFutures :
           startCalls[f] = 0 =>
               (~once[f] /\ pc[f] = "none" /\ runs[f] = 0 /\ ~done[f])
    /\ (waPc = "returned" /\ Unstarted # {}) =>
           /\ waRet.isNil
           /\ \/ waJ >= 1 /\ scopeDone /\ waRet = RetErr(Canceled)
              \/ /\ waJ = 0
                 /\ \A j \in Unstarted : waI < j
                 /\ done[waFus[waI]] /\ err[waFus[waI]] # Nil
                 /\ waRet = RetErr(err[waFus[waI]])
    /\ (wtPc = "returned" /\ startCalls[wtFu] = 0) =>
           /\ wtExpired /\ wtSaw.expired /\ ~wtSaw.done
           /\ wtRet = Pair(Zero, DeadlineExceeded)

\* WaitAll returned through the cancellation of its scope and WaitTimeout at
\* its deadline, both on a future that was never started.
C37_Witness ==
    /\ waPc = "returned" /\ waJ >= 1 /\ Unstarted # {}
    /\ wtPc = "returned" /\ startCalls[wtFu] = 0
    /\ wtRet = Pair(Zero, DeadlineExceeded)

====
